---- MODULE Spec2Model ----
(***************************************************************************)
(* sinstruments: the transport and message-framing core of the instrument  *)
(* simulator (sinstruments/simulator.py).                                  *)
(*                                                                         *)
(* Part 1 models one channel served by LineProtocol: the bytes a client    *)
(* sends, LineProtocol.read_messages (the "\n" fast path over the file     *)
(* iterator and the buffered split on a custom terminator),                *)
(* MessageProtocol.handle / handle_message and the writes of the replies.  *)
(* Bytes are written as short strings: "LF" is b"\n", "CR" is b"\r".       *)
(***************************************************************************)
EXTENDS Integers, Sequences, FiniteSets, TLC

\* ---------------------------------------------------------------- bounds
MaxStream == 4

MaxMsgs == 2

MaxReplies == 3

\* ----------------------------------------------------------- byte strings
Bytes == {"A", "S", "CR", "LF"}

LF == <<"LF">>
CR == <<"CR">>
CRLF == <<"CR", "LF">>

\* BaseDevice.newline: b"\n" by default, overridden per device ("\r" for the
\* Elettra electrometers, "\r\n" as a multi-byte terminator).
Newlines == {LF, CR, CRLF}

\* AH501D.special_messages
special_messages == {<<"S">>}

\* The replies a device hands back (bytes); a device terminates its replies
\* itself, so one of them ends with a terminator and one does not.
Replies == {<<"A">>, <<"S", "LF">>}

\* Python's None / a value, for what handle_message returns or yields.
None == <<>>
Some(x) == <<x>>

RECURSIVE SeqsUpTo(_, _)
SeqsUpTo(S, n) ==
    IF n = 0 THEN {<<>>}
    ELSE LET shorter == SeqsUpTo(S, n - 1)
         IN shorter \cup {Append(s, b) : s \in shorter, b \in S}

IsPrefix(p, s) == Len(p) <= Len(s) /\ SubSeq(s, 1, Len(p)) = p

RECURSIVE Flatten(_)
Flatten(ss) == IF ss = <<>> THEN <<>> ELSE Head(ss) \o Flatten(Tail(ss))

NonEmpty(ss) == SelectSeq(ss, LAMBDA s : s # <<>>)

Front(s) == SubSeq(s, 1, Len(s) - 1)

Last(s) == s[Len(s)]

\* bytes.split(sep): the segments between the leftmost non-overlapping
\* occurrences of sep; always at least one segment, the last being the rest.
RECURSIVE SplitFrom(_, _, _)
SplitFrom(s, sep, seg) ==
    IF s = <<>> THEN <<seg>>
    ELSE IF IsPrefix(sep, s)
         THEN <<seg>> \o SplitFrom(SubSeq(s, Len(sep) + 1, Len(s)), sep, <<>>)
         ELSE SplitFrom(Tail(s), sep, Append(seg, Head(s)))

split(s, sep) == SplitFrom(s, sep, <<>>)

Min(S) == CHOOSE x \in S : \A y \in S : x <= y

\* ------------------------------------------------------------------ state
VARIABLES
    nl,          \* device.newline, the terminator of the channel's device
    isgen,       \* BaseProtocol.is_generator
    sent,        \* the messages the client sends, in order
    stream,      \* every byte the client sends on the channel, in order
    wire,        \* the bytes of stream the client has not sent yet
    avail,       \* bytes received on the socket and not read yet
    peerClosed,  \* the client has closed its side
    pc,          \* where MessageProtocol.handle is: read, yield, gen, send, closed
    closedBy,    \* how the handler ended: none, eof, error
    buff,        \* read_messages: the accumulation buffer
    lines,       \* read_messages: the lines still to be yielded
    handled,     \* the messages handed to device.handle_message, in order
    prod,        \* the replies the device produced: [m: message number, r: None or Some(bytes)]
    cur,         \* the reply being written
    nwr,         \* the number of channel.write calls that completed
    rx           \* the bytes written to the channel, in order

chanVars == <<nl, isgen, sent, stream, wire, avail, peerClosed, pc, closedBy, buff,
              lines, handled, prod, cur, nwr, rx>>

\* Part 2: one TCPServer and one UDPServer of a device, with the handler
\* tasks of the TCP connections and a task that broadcasts.
VARIABLES
    sconn,        \* per peer address: none, then read / send while its handler
                  \* runs, then how the handler ended: eof, error, killed
    connections,  \* TCPServer.connections: the dict's entries in insertion
                  \* order, a deleted entry leaving an empty slot
    ndel,         \* per peer address: how often its entry was deleted
    bc,           \* the broadcast: the dict iterator and the socket written to
    bcSnap,       \* the addresses in the map when the broadcast started
    bcGone,       \* the connections that ended since the broadcast started
    bcGot,        \* the addresses whose socket got the broadcast message
    bcLogged,     \* the addresses whose failed write was logged
    udp           \* the UDP datagrams: handled, errors logged, the last outcome

srvVars == <<sconn, connections, ndel, bc, bcSnap, bcGone, bcGot, bcLogged, udp>>

\* An observer of the servers, written by no step of the program.
VARIABLES
    surv          \* who: a connection that was open when another one failed;
                  \* did: what it has done since; acc: a connection was
                  \* accepted after a failure

\* Part 3: Server.serve_forever / stop over the transports of the registered
\* devices, and the command line around it.
VARIABLES
    devTr,        \* per registered device, in dict order: how many transports
    ltask,        \* per transport: its serve_forever task: none, running, done, failed
    lstop,        \* per transport: how often its stop() was called
    lpc,          \* the main task: init, join, stop, clistop, returned, raised, exit, exit1
    li,           \* Server.stop: the position of its loops
    lintr,        \* a KeyboardInterrupt was raised in joinall
    stopped       \* stop() was called on the TCP transport of part 2

lifeVars == <<devTr, ltask, lstop, lpc, li, lintr, stopped>>

\* Part 4: Server.__init__ going through the declarative device list.
VARIABLES
    devices,      \* Server.devices: per key the class of the device, or NoDevice
    cfgLast,      \* the entry handled last: the entry, whether create_device
                  \* returned, and the transports create_device made for it
    cfgOut        \* per entry handled so far: created or logged

cfgVars == <<devices, cfgLast, cfgOut>>

\* Part 5: the delays on the path of a message through one transport.
VARIABLES
    dkind,        \* the type of the transport: tcp, udp, serial
    dbaud,        \* its baudrate: None or Some(b)
    dpc,          \* read, handle, send
    dcur,         \* the byte length of the message, or of the reply, in hand
    dn,           \* the number of messages read
    dlog          \* what happened, in order: delay(n) was called, the task
                  \* slept t seconds, n bytes were handed to the device,
                  \* n bytes were written

dlyVars == <<dkind, dbaud, dpc, dcur, dn, dlog>>

\* Part 6: the scheduling of the handler tasks of the connections.
VARIABLES
    tk,           \* per connection: none, or where its task is suspended: read, sleep
    cpu,          \* who runs: the hub, or the task that holds the thread
    cin,          \* per connection: the messages received and not read yet
    cdone,        \* per connection: the messages handled
    cbaud         \* the transport has a baudrate

coopVars == <<tk, cpu, cin, cdone, cbaud>>

\* Part 7: a SerialServer, its pty and the link path P in the file system.
VARIABLES
    fs,           \* at: what is at P: nothing, stale (a link of an earlier
                  \* run), file, link (the link to the tty of the pty slave);
                  \* dir: the directory part of P: nodir (P has none), exists,
                  \* missing
    ser           \* master, slave: self.master, self.slave: unset, fd, None;
                  \* fdm, fds: the descriptors: none, open, closed;
                  \* made: the constructor calls so far; ctor: how the last
                  \* one ended; calls: the close() calls so far; res: how the
                  \* last one ended; loop: the protocol loop of
                  \* serve_forever: none, running, ended; handled: the
                  \* messages handled

serVars == <<fs, ser>>

\* Part 8: the datagrams of a UDPServer.
VARIABLES
    urecv,        \* the datagrams received: [data, peer], in order
    uhandled,     \* the messages handed to handle_message, each with the
                  \* channel of its protocol object, in order
    ureplies,     \* the replies the device returned: [data, to], in order
    uout,         \* the sendto calls: [data, to], in order
    ucur,         \* UDPServer.send: data, channel and the count sent
    upc           \* idle, send

udpVars == <<urecv, uhandled, ureplies, uout, ucur, upc>>

\* Part 9: the background tasks of the devices.
VARIABLES
    acq,          \* acq_task of each device: none, running, killed
    acqLate       \* a task broadcast after Server.stop had returned

bgVars == <<acq, acqLate>>

\* Part 10: BaseDevice.broadcast over the transports of a device.
VARIABLES
    dbTr,         \* self.transports: the kind of each transport, in order
    dbi,          \* the position of the for loop
    dbCalls,      \* how often broadcast(msg) of each transport was invoked in
                  \* the current call
    dbn,          \* the calls of Device.broadcast so far
    dbpc          \* idle, loop, done, raised

fanVars == <<dbTr, dbi, dbCalls, dbn, dbpc>>

\* Part 11: server_context of the pytest plugin.
VARIABLES
    ctxTr,        \* the transports of the devices of the server, in order
    ctxStarted,   \* whether start() of each transport was called and returned
    ctxi,         \* the position of the loops of _run over the transports
    ctxRun,       \* the thread of _run: none, create, loop, waiting,
                  \* killing, ended, died
    ctxEvent,     \* started_event is set
    ctxCaller,    \* the caller: init, waiting, entered, joining, left
    ctxn,         \* the calls of start() so far
    ctxTask,      \* server_task, the greenlet of Server.serve_forever: none,
                  \* spawned, serving, dead, never (killed before it ran)
    ctxStops,     \* how often stop() of each transport was called since start
    ctxAsync,     \* stop(): idle, or the watcher was sent while server_task
                  \* had not run yet (early) or had (late)
    ctxNoops      \* the calls of stop() that found self.thread None

ctxVars == <<ctxTr, ctxStarted, ctxi, ctxRun, ctxEvent, ctxCaller, ctxn,
             ctxTask, ctxStops, ctxAsync, ctxNoops>>

\* Part 12: the transports that create_device makes for a device.
VARIABLES
    tb            \* the transports made: the entry, the baudrate of the
                  \* device, the class and the baudrate of the transport

tbVars == <<tb>>

\* Part 13: the calls of UDPServer.broadcast.
VARIABLES
    ubc           \* how often UDPServer.broadcast was called

ubcVars == <<ubc>>

\* Part 14: create_device on one device entry, transport by transport.
VARIABLES
    rj            \* pc (idle, loop, rejected, registered), the transport
                  \* entries still to do, iklass, the transports made, the
                  \* ptys and links that are held, and the entries so far

rjVars == <<rj>>

\* Part 15: the acquisition tasks of a Mythen2.
VARIABLES
    mt            \* tasks: every acquisition task spawned so far (spawned,
                  \* running, done, killed, never), the last being
                  \* self.acq_task; last: the command handled last

mtVars == <<mt>>

\* Part 16: a TriggerMultiAcquisition.
VARIABLES
    tg            \* pc (wait, acquiring, done), trig (self._trigger: an
                  \* Event that is clear or set, or None), frame (frame_nb),
                  \* nb (nb_frames), buf (the frames put in self.buffer),
                  \* and the triggers that were accepted and missed

tgVars == <<tg>>

\* Part 17: an acquisition of a Mythen2 and the readouts of its buffer.
VARIABLES
    ra,           \* the acquisition: st (the task: spawned, running, done,
                  \* killed, never), finished (None, False, True), nb, frame,
                  \* buf (self.buffer), put (the frames put so far)
    rd            \* the readouts: pc (idle, reading, done), n, got (the
                  \* frames of the reply), all (the frames of all replies),
                  \* k (the requests so far)

raVars == <<ra, rd>>

\* Part 18: an axis of an IcePAP.
VARIABLES
    ax            \* pos (_position), dest (_destination, NoDest for None),
                  \* onpos (_on_position), ready (the ready bit; the moving
                  \* bit is its opposite), x0, sign and t3 (the trajectory),
                  \* now (the time since _start_time), dest0 (the
                  \* destination when the motion was started), and the
                  \* calls of preparemove: all (np) and rejected (rej)

axVars == <<ax>>

tailVars == <<tbVars, ubcVars, rjVars, mtVars, tgVars, raVars, axVars>>

extVars == <<coopVars, serVars, udpVars, bgVars, fanVars, ctxVars, tailVars>>

coreVars == <<chanVars, srvVars, surv, lifeVars, cfgVars, dlyVars>>

vars == <<coreVars, extVars>>

\* What the steps of a channel, and the steps of the servers, leave alone.
notChan == <<srvVars, surv, lifeVars, cfgVars, dlyVars, extVars>>

notSrv == <<chanVars, lifeVars, cfgVars, dlyVars, extVars>>

notLife == <<chanVars, srvVars, surv, cfgVars, dlyVars, extVars>>

notCfg == <<chanVars, srvVars, surv, lifeVars, dlyVars, extVars>>

notDly == <<chanVars, srvVars, surv, lifeVars, cfgVars, extVars>>

notCoop == <<coreVars, serVars, udpVars, bgVars, fanVars, ctxVars, tailVars>>

notSer == <<coreVars, coopVars, udpVars, bgVars, fanVars, ctxVars, tailVars>>

notUdp == <<coreVars, coopVars, serVars, bgVars, fanVars, ctxVars, tailVars>>

notBg == <<coreVars, coopVars, serVars, udpVars, fanVars, ctxVars, tailVars>>

notFan == <<coreVars, coopVars, serVars, udpVars, bgVars, ctxVars, tailVars>>

notCtx == <<coreVars, coopVars, serVars, udpVars, bgVars, fanVars, tailVars>>

preVars == <<coreVars, coopVars, serVars, udpVars, bgVars, fanVars, ctxVars>>

notTb == <<preVars, ubcVars, rjVars, mtVars, tgVars, raVars, axVars>>

notUbc == <<coreVars, coopVars, serVars, bgVars, fanVars, ctxVars, tbVars, rjVars, mtVars, tgVars, raVars, axVars>>

notRj == <<preVars, tbVars, ubcVars, mtVars, tgVars, raVars, axVars>>

notMt == <<preVars, tbVars, ubcVars, rjVars, tgVars, raVars, axVars>>

notTg == <<preVars, tbVars, ubcVars, rjVars, mtVars, raVars, axVars>>

notRa == <<preVars, tbVars, ubcVars, rjVars, mtVars, tgVars, axVars>>

notAx == <<preVars, tbVars, ubcVars, rjVars, mtVars, tgVars, raVars>>

\* ------------------------------------------------ LineProtocol.read_messages
\* `for line in channel`: the file iterator returns the bytes up to and
\* including the next b"\n"; at end of file it returns what is left.
HasLF(s) == \E i \in 1..Len(s) : s[i] = "LF"

FirstLF(s) == CHOOSE i \in 1..Len(s) : s[i] = "LF" /\ \A j \in 1..(i - 1) : s[j] # "LF"

FastLine(s) == IF HasLF(s) THEN SubSeq(s, 1, FirstLF(s)) ELSE s

\* lines = buff.split(nl); buff, lines = lines[-1], lines[:-1]
NewBuff(b, readout, sep) == Last(split(b \o readout, sep))

\* Mutant of NewLines: the lines of one read come out last first.
Reverse(ss) == [i \in 1..Len(ss) |-> ss[Len(ss) + 1 - i]]

NewLinesReversed(b, readout, sep) == Reverse(NonEmpty(Front(split(b \o readout, sep))))

\* for line in lines: if line: yield line
NewLines(b, readout, sep) == NonEmpty(Front(split(b \o readout, sep)))

\* MessageProtocol.handle: the for loop asks read_messages for the next
\* message: one more pending line, or back to the read.
NextPc(ls) == IF ls = <<>> THEN "read" ELSE "yield"

\* ------------------------------------------------------------ the client
\* The client's next k bytes reach the socket (one packet).
Arrive ==
    /\ \E k \in 1..Len(wire) :
          /\ avail' = avail \o SubSeq(wire, 1, k)
          /\ wire' = SubSeq(wire, k + 1, Len(wire))
    /\ UNCHANGED <<nl, isgen, sent, stream, peerClosed, pc, closedBy, buff, lines,
                   handled, prod, cur, nwr, rx, notChan>>

\* The client closes the connection after its last byte.
PeerClose ==
    /\ wire = <<>>
    /\ ~peerClosed
    /\ peerClosed' = TRUE
    /\ UNCHANGED <<nl, isgen, sent, stream, wire, avail, pc, closedBy, buff, lines,
                   handled, prod, cur, nwr, rx, notChan>>

\* ------------------------------------------------------------- the reads
\* nl == b"\n": transport.ireadlines(channel) blocks until a whole line or
\* the end of file is there.
ReadLineFast ==
    /\ pc = "read"
    /\ nl = LF
    /\ HasLF(avail) \/ peerClosed
    /\ IF avail = <<>>
       THEN /\ pc' = "closed"
            /\ closedBy' = "eof"
            /\ UNCHANGED <<avail, lines>>
       ELSE /\ lines' = <<FastLine(avail)>>
            /\ avail' = SubSeq(avail, Len(FastLine(avail)) + 1, Len(avail))
            /\ pc' = "yield"
            /\ UNCHANGED closedBy
    /\ UNCHANGED <<nl, isgen, sent, stream, wire, peerClosed, buff, handled, prod,
                   cur, nwr, rx, notChan>>

\* any other nl: transport.read1(channel) returns what is there (b"" at end
\* of file), the buffer is split on nl and its last segment kept.
ReadCustom ==
    /\ pc = "read"
    /\ nl # LF
    /\ avail # <<>> \/ peerClosed
    /\ IF avail = <<>>
       THEN /\ pc' = "closed"
            /\ closedBy' = "eof"
            /\ UNCHANGED <<avail, buff, lines>>
       ELSE /\ buff' = NewBuff(buff, avail, nl)
            /\ lines' = NewLines(buff, avail, nl)
            /\ avail' = <<>>
            /\ pc' = NextPc(lines')
            /\ UNCHANGED closedBy
    /\ UNCHANGED <<nl, isgen, sent, stream, wire, peerClosed, handled, prod, cur,
                   nwr, rx, notChan>>

\* The read raises (connection reset): SimulatorServerMixin.handle logs the
\* error and the handler ends.
ReadError ==
    /\ pc = "read"
    /\ ~peerClosed
    /\ pc' = "closed"
    /\ closedBy' = "error"
    /\ UNCHANGED <<nl, isgen, sent, stream, wire, avail, peerClosed, buff, lines,
                   handled, prod, cur, nwr, rx, notChan>>

\* ------------------------------------- mythen2 Protocol.read_messages
\* transport.read(self.channel, size=4096)
ReadSize == 4096

\* Mutant of RawMessages: the read is cut into lines.
RawMessagesLines(data) == NonEmpty(split(data, LF))

\* `yield data`: the messages one read gives.
RawMessages(data) == <<data>>

\* The binary protocol: a read returns the bytes that are there, ReadSize at
\* most (b"" at end of file, which ends the loop), and they are one message.
ReadRaw ==
    /\ pc = "read"
    /\ avail # <<>> \/ peerClosed
    /\ IF avail = <<>>
       THEN /\ pc' = "closed"
            /\ closedBy' = "eof"
            /\ UNCHANGED <<avail, lines>>
       ELSE /\ lines' = RawMessages(SubSeq(avail, 1, Min({Len(avail), ReadSize})))
            /\ avail' = SubSeq(avail, Min({Len(avail), ReadSize}) + 1, Len(avail))
            /\ pc' = NextPc(lines')
            /\ UNCHANGED closedBy
    /\ UNCHANGED <<nl, isgen, sent, stream, wire, peerClosed, buff, handled, prod,
                   cur, nwr, rx, notChan>>

\* ------------------------------------------- MessageProtocol.handle_message
ReplyValues == {None} \cup {Some(d) : d \in Replies}

\* Mutant of SendsReply: no reply is sent on.
SendsReplyNever(r) == FALSE

\* if reply is not None: self.transport.send(self.channel, reply)
SendsReply(r) == r # None

\* Mutant of write: a line feed is written after the data.
writeTerminated(chan, data) == chan \o data \o LF

\* TCPServer.send: channel.write(data)
write(chan, data) == chan \o data

\* The replies the device produced for the message being handled.
CurReplies == SelectSeq(prod, LAMBDA p : p.m = Len(handled))

\* reply = self.device.handle_message(message), a plain function returning r.
HandleReturn(r) ==
    /\ pc = "yield"
    /\ ~isgen
    /\ handled' = Append(handled, Head(lines))
    /\ lines' = Tail(lines)
    /\ prod' = Append(prod, [m |-> Len(handled) + 1, r |-> r])
    /\ IF SendsReply(r)
       THEN cur' = r[1] /\ pc' = "send"
       ELSE cur' = cur /\ pc' = NextPc(lines')
    /\ UNCHANGED <<nl, isgen, sent, stream, wire, avail, peerClosed, closedBy, buff,
                   nwr, rx, notChan>>

HandleNone == HandleReturn(None)

HandleReply == \E d \in Replies : HandleReturn(Some(d))

\* device.handle_message raises: the exception leaves handle and
\* SimulatorServerMixin.handle logs it.
HandleRaise ==
    /\ pc = "yield"
    /\ ~isgen
    /\ handled' = Append(handled, Head(lines))
    /\ lines' = Tail(lines)
    /\ pc' = "closed"
    /\ closedBy' = "error"
    /\ UNCHANGED <<nl, isgen, sent, stream, wire, avail, peerClosed, buff, prod, cur,
                   nwr, rx, notChan>>

\* for reply in self.device.handle_message(message): the generator is made.
GenStart ==
    /\ pc = "yield"
    /\ isgen
    /\ handled' = Append(handled, Head(lines))
    /\ lines' = Tail(lines)
    /\ pc' = "gen"
    /\ UNCHANGED <<nl, isgen, sent, stream, wire, avail, peerClosed, closedBy, buff,
                   prod, cur, nwr, rx, notChan>>

\* The generator is resumed and yields r.
GenYield(r) ==
    /\ pc = "gen"
    /\ Len(prod) < MaxReplies
    /\ prod' = Append(prod, [m |-> Len(handled), r |-> r])
    /\ IF SendsReply(r)
       THEN cur' = r[1] /\ pc' = "send"
       ELSE cur' = cur /\ pc' = "gen"
    /\ UNCHANGED <<nl, isgen, sent, stream, wire, avail, peerClosed, closedBy, buff,
                   lines, handled, nwr, rx, notChan>>

\* The generator is resumed and ends.
GenEnd ==
    /\ pc = "gen"
    /\ pc' = NextPc(lines)
    /\ UNCHANGED <<nl, isgen, sent, stream, wire, avail, peerClosed, closedBy, buff,
                   lines, handled, prod, cur, nwr, rx, notChan>>

\* Mutant of GenRaise: the exception is caught inside the loop of handle and
\* the next message is asked for.
GenRaiseGoesOn ==
    /\ pc = "gen"
    /\ pc' = NextPc(lines)
    /\ closedBy' = "error"
    /\ UNCHANGED <<nl, isgen, sent, stream, wire, avail, peerClosed, buff, lines,
                   handled, prod, cur, nwr, rx, notChan>>

\* The generator is resumed and raises.
GenRaise ==
    /\ pc = "gen"
    /\ pc' = "closed"
    /\ closedBy' = "error"
    /\ UNCHANGED <<nl, isgen, sent, stream, wire, avail, peerClosed, buff, lines,
                   handled, prod, cur, nwr, rx, notChan>>

\* self.transport.send(self.channel, reply) returns.
Send ==
    /\ pc = "send"
    /\ rx' = write(rx, cur)
    /\ nwr' = nwr + 1
    /\ cur' = <<>>
    /\ pc' = IF isgen THEN "gen" ELSE NextPc(lines)
    /\ UNCHANGED <<nl, isgen, sent, stream, wire, avail, peerClosed, closedBy, buff,
                   lines, handled, prod, notChan>>

\* ---------------------------------------------------------------- TCPServer
MaxConns == 3

MaxDatagrams == 2

\* The peer addresses of the TCP connections, numbered in the order in which
\* they connect; each connects once.
Addrs == 1..MaxConns

\* An empty slot of the dict's entries; no socket.
Free == 0

Running(st) == st \in {"read", "send"}

\* The dict TCPServer.connections, keyed by peer address.
InMap(es, c) == \E i \in 1..Len(es) : es[i] = c

Keys(es) == {es[i] : i \in 1..Len(es)} \ {Free}

ma_used(es) == Cardinality({i \in 1..Len(es) : es[i] # Free})

\* self.connections[addr] = sock
SetItem(es, c) == IF InMap(es, c) THEN es ELSE Append(es, c)

\* The number of calls of device.on_connection that the handler of a
\* connection in state st has made: TCPServer.handle registers the socket
\* and runs the protocol, and holds no call of the hook.
on_connection_calls(st) == 0

\* Mutant of DelItem: every entry is removed.
DelEvery(es, c) == [i \in 1..Len(es) |-> Free]

\* del self.connections[addr]
DelItem(es, c) == [i \in 1..Len(es) |-> IF es[i] = c THEN Free ELSE es[i]]

\* Mutant of Finally: the entry is deleted after the try block, not in a
\* finally clause, so a killed handler does not get there.
FinallyUnlessKilled(es, c, how) == IF how = "killed" THEN es ELSE DelItem(es, c)

\* TCPServer.handle: finally: del self.connections[addr]; sock.close()
Finally(es, c, how) == DelItem(es, c)

\* The handler of connection c ends: by the end of file, by an exception that
\* SimulatorServerMixin.handle logs, or killed at a point where it waits.
End(c, how) ==
    /\ sconn' = [sconn EXCEPT ![c] = how]
    /\ connections' = Finally(connections, c, how)
    /\ ndel' = [ndel EXCEPT ![c] =
                  IF InMap(connections, c) /\ ~InMap(connections', c) THEN @ + 1 ELSE @]
    /\ bcGone' = IF bc.pc = "sending" THEN bcGone \cup {c} ELSE bcGone
    /\ UNCHANGED <<bc, bcSnap, bcGot, bcLogged, udp, notSrv>>

\* A connection is accepted: its handler registers the socket and waits in
\* the first read.
Accept(c) ==
    /\ sconn[c] = "none"
    /\ \A d \in Addrs : d < c => sconn[d] # "none"
    /\ sconn' = [sconn EXCEPT ![c] = "read"]
    /\ connections' = SetItem(connections, c)
    /\ UNCHANGED <<ndel, bc, bcSnap, bcGone, bcGot, bcLogged, udp, notSrv>>

\* A message of connection c is handled and the device returns a reply: the
\* handler waits in the write.
SrvReply(c) ==
    /\ sconn[c] = "read"
    /\ sconn' = [sconn EXCEPT ![c] = "send"]
    /\ UNCHANGED <<connections, ndel, bc, bcSnap, bcGone, bcGot, bcLogged, udp, notSrv>>

\* The reply is written; the handler reads again.
SrvSent(c) ==
    /\ sconn[c] = "send"
    /\ sconn' = [sconn EXCEPT ![c] = "read"]
    /\ UNCHANGED <<connections, ndel, bc, bcSnap, bcGone, bcGot, bcLogged, udp, notSrv>>

\* The read returns the end of file.
SrvEOF(c) == sconn[c] = "read" /\ End(c, "eof")

\* The read raises, or device.handle_message raises.
SrvReadError(c) == sconn[c] = "read" /\ End(c, "error")

\* The write of a reply raises.
SrvSendError(c) == sconn[c] = "send" /\ End(c, "error")

\* The handler task is killed while it waits in a read or in a write.
Kill(c) == Running(sconn[c]) /\ End(c, "killed")

\* ------------------------------------------------------ TCPServer.broadcast
NoIter == [pc |-> "idle", pos |-> 0, used |-> 0, len |-> 0, cur |-> Free]

\* next() of the iterator of self.connections.items(): RuntimeError when the
\* dict changed size since the iterator was made, or when an entry is found
\* after as many entries as the dict had were returned; else the next entry
\* that is not empty.
IterNext(es, it) ==
    LET rest == {i \in (it.pos + 1)..Len(es) : es[i] # Free}
    IN IF it.used # ma_used(es) THEN [NoIter EXCEPT !.pc = "raised"]
       ELSE IF rest = {} THEN [NoIter EXCEPT !.pc = "done"]
       ELSE IF it.len = 0 THEN [NoIter EXCEPT !.pc = "raised"]
       ELSE [pc |-> "sending", pos |-> Min(rest), used |-> it.used,
             len |-> it.len - 1, cur |-> es[Min(rest)]]

\* broadcast(msg) is called: the iterator is made and the first sendall begun.
BroadcastStart ==
    /\ bc.pc \in {"idle", "done"}
    /\ bc' = IterNext(connections, [NoIter EXCEPT !.used = ma_used(connections),
                                                  !.len = ma_used(connections)])
    /\ bcSnap' = Keys(connections)
    /\ bcGone' = {}
    /\ bcGot' = {}
    /\ bcLogged' = {}
    /\ UNCHANGED <<sconn, connections, ndel, udp, notSrv>>

\* sock.sendall(msg) returns, or raises and the error is logged; the loop
\* goes on to the next entry. A closed socket cannot be written.
BroadcastSent(ok) ==
    /\ bc.pc = "sending"
    /\ ok => Running(sconn[bc.cur])
    /\ bcGot' = IF ok THEN bcGot \cup {bc.cur} ELSE bcGot
    /\ bcLogged' = IF ok THEN bcLogged ELSE bcLogged \cup {bc.cur}
    /\ bc' = IterNext(connections, bc)
    /\ UNCHANGED <<sconn, connections, ndel, bcSnap, bcGone, udp, notSrv>>

\* ---------------------------------------------------------------- UDPServer
\* A datagram is handed to handler.handle_message, which returns.
UdpHandle ==
    /\ udp.n < MaxDatagrams
    /\ udp' = [udp EXCEPT !.n = @ + 1, !.last = "ok"]
    /\ UNCHANGED <<sconn, connections, ndel, bc, bcSnap, bcGone, bcGot,
                   bcLogged, notSrv>>

\* A datagram is handed to handler.handle_message, which raises: logged.
UdpRaise ==
    /\ udp.n < MaxDatagrams
    /\ udp' = [udp EXCEPT !.n = @ + 1, !.logged = @ + 1, !.last = "raise"]
    /\ UNCHANGED <<sconn, connections, ndel, bc, bcSnap, bcGone, bcGot,
                   bcLogged, notSrv>>

\* ------------------------------------------- Server.start / stop / serve_forever
MaxDevices == 2

MaxTransports == 2

\* The most transports a server has in all.
MaxTasks == 3

\* The transports of device d, in the order of device.transports.
DevTransports(dt, d) == [i \in 1..dt[d] |-> <<d, i>>]

\* for device in self.devices.values(): for transport in device.transports
AllTransports(dt) == Flatten([d \in 1..Len(dt) |-> DevTransports(dt, d)])

TransportSet(dt) == {AllTransports(dt)[k] : k \in 1..Len(AllTransports(dt))}

\* Server.start: a task is spawned for serve_forever of every transport;
\* serve_forever then waits in joinall.
ServerStart ==
    /\ lpc = "init"
    /\ ltask' = [t \in TransportSet(devTr) |-> "running"]
    /\ lpc' = "join"
    /\ UNCHANGED <<devTr, lstop, li, lintr, stopped, notLife>>

\* serve_forever of transport t returns, or raises, while the main task
\* waits.
TaskEnd(t, how) ==
    /\ lpc = "join"
    /\ ltask[t] = "running"
    /\ ltask' = [ltask EXCEPT ![t] = how]
    /\ UNCHANGED <<devTr, lstop, lpc, li, lintr, stopped, notLife>>

\* gevent.joinall(tasks) returns: every task has ended (a failed task does
\* not make joinall raise). The finally clause begins self.stop().
JoinAllReturns ==
    /\ lpc = "join"
    /\ \A t \in TransportSet(devTr) : ltask[t] # "running"
    /\ lpc' = "stop"
    /\ li' = 1
    /\ UNCHANGED <<devTr, ltask, lstop, lintr, stopped, notLife>>

\* Ctrl-C: KeyboardInterrupt is raised in joinall. The finally clause begins
\* self.stop().
Interrupt ==
    /\ lpc = "join"
    /\ lintr' = TRUE
    /\ lpc' = "stop"
    /\ li' = 1
    /\ UNCHANGED <<devTr, ltask, lstop, stopped, notLife>>

\* Server.stop: transport.stop() is called on the next transport and
\* returns, or raises. An exception leaves the loops: out of serve_forever
\* and of cli (which catches KeyboardInterrupt only) when in the finally
\* clause, into cli's `except Exception: return 1` when in cli's own stop.
StopCall(raises) ==
    /\ lpc \in {"stop", "clistop"}
    /\ li <= Len(AllTransports(devTr))
    /\ lstop' = [lstop EXCEPT ![AllTransports(devTr)[li]] = @ + 1]
    /\ IF raises
       THEN /\ lpc' = IF lpc = "stop" THEN "raised" ELSE "exit1"
            /\ li' = li
       ELSE /\ lpc' = lpc
            /\ li' = li + 1
    /\ UNCHANGED <<devTr, ltask, lintr, stopped, notLife>>

\* Server.stop returns. serve_forever returns, or its KeyboardInterrupt goes
\* on to cli, which calls server.stop() again and then ends.
StopReturns ==
    /\ lpc \in {"stop", "clistop"}
    /\ li > Len(AllTransports(devTr))
    /\ lpc' = IF lpc = "clistop" THEN "exit"
              ELSE IF lintr THEN "clistop" ELSE "returned"
    /\ li' = 1
    /\ UNCHANGED <<devTr, ltask, lstop, lintr, stopped, notLife>>

\* stop() of the TCP transport, inherited from gevent's StreamServer, which
\* TCPServer constructs with the default spawn and so without a pool: the
\* listener is closed and no more connections are accepted; the handler
\* tasks, which stop() reaches only through a pool, are left as they are.
TransportStop ==
    /\ ~stopped
    /\ stopped' = TRUE
    /\ UNCHANGED <<devTr, ltask, lstop, lpc, li, lintr, notLife>>

\* ------------------------------------------- Server.__init__ / create_device
MaxEntries == 2

\* A key that a device entry, or a transport entry, does not have.
Absent == "absent"

Names == {"a", "b"}

\* The device registry holds the classes K and Bad; the constructor of Bad
\* raises on the options it is given. Nope is in no registry.
Registry == {"K", "Bad"}

Classes == {"K", "Bad", "Nope"}

\* The types of the transport entries of the configurations: two that
\* create_device knows and one that it does not.
TransportTypes == {"tcp", "udp", "bogus"}

\* The device entries of a configuration.
Entries ==
    [name : Names \cup {Absent},
     class : Classes \cup {Absent},
     transports : SeqsUpTo(TransportTypes, MaxTransports)]

NoDevice == "none"

Unbound == "unbound"

Registered(devs) == {k \in DOMAIN devs : devs[k] # NoDevice}

\* itype = ikwargs.pop("type", "tcp") and the if / elif chain that binds
\* iklass: a type that matches no branch leaves iklass as it was.
NextIklass(itype, iklass) ==
    CASE itype \in {"tcp", Absent} -> "TCPServer"
      [] itype = "udp" -> "UDPServer"
      [] itype = "serial" -> "SerialServer"
      [] OTHER -> iklass

\* The loop over transports_info: transports.append(iklass(...)), which
\* raises UnboundLocalError while iklass is not bound.
RECURSIVE MakeTransports(_, _, _)
MakeTransports(types, iklass, made) ==
    IF types = <<>> THEN [ok |-> TRUE, made |-> made]
    ELSE LET k == NextIklass(Head(types), iklass)
         IN IF k = Unbound THEN [ok |-> FALSE, made |-> made]
            ELSE MakeTransports(Tail(types), k, Append(made, k))

\* create_device(device_info, registry): pop class and name (KeyError),
\* look the class up (KeyError), construct the device, make its transports.
create_device(info) ==
    IF info.class = Absent \/ info.name = Absent THEN [ok |-> FALSE, made |-> <<>>]
    ELSE IF info.class \notin Registry THEN [ok |-> FALSE, made |-> <<>>]
    ELSE IF info.class = "Bad" THEN [ok |-> FALSE, made |-> <<>>]
    ELSE MakeTransports(info.transports, Unbound, <<>>)

\* Mutant of Server_create_device: no check that the name is free.
Server_create_deviceNoAssert(devs, info) ==
    IF info.name = Absent THEN [ok |-> FALSE, devices |-> devs, made |-> <<>>]
    ELSE IF create_device(info).ok
         THEN [ok |-> TRUE,
               devices |-> [devs EXCEPT ![info.name] = info.class],
               made |-> create_device(info).made]
         ELSE [ok |-> FALSE, devices |-> devs, made |-> create_device(info).made]

\* Mutant of Server_create_device: the name is registered before the device
\* is created.
Server_create_deviceEarly(devs, info) ==
    IF info.name = Absent THEN [ok |-> FALSE, devices |-> devs, made |-> <<>>]
    ELSE IF devs[info.name] # NoDevice THEN [ok |-> FALSE, devices |-> devs, made |-> <<>>]
    ELSE [ok |-> create_device(info).ok,
          devices |-> [devs EXCEPT ![info.name] = info.class],
          made |-> create_device(info).made]

\* Server.create_device: name = device_info["name"] (KeyError), assert name
\* not in self.devices, create the device, self.devices[name] = device.
Server_create_device(devs, info) ==
    IF info.name = Absent THEN [ok |-> FALSE, devices |-> devs, made |-> <<>>]
    ELSE IF devs[info.name] # NoDevice THEN [ok |-> FALSE, devices |-> devs, made |-> <<>>]
    ELSE IF create_device(info).ok
         THEN [ok |-> TRUE,
               devices |-> [devs EXCEPT ![info.name] = info.class],
               made |-> create_device(info).made]
         ELSE [ok |-> FALSE, devices |-> devs, made |-> create_device(info).made]

\* Server.__init__, one turn of `for device in devices`: try
\* self.create_device(device), except Exception: log the error.
CreateEntry(e) ==
    /\ Len(cfgOut) < MaxEntries
    /\ devices' = Server_create_device(devices, e).devices
    /\ cfgLast' = [entry |-> e,
                   ok |-> Server_create_device(devices, e).ok,
                   made |-> Server_create_device(devices, e).made]
    /\ cfgOut' = Append(cfgOut, IF Server_create_device(devices, e).ok
                                THEN "created" ELSE "logged")
    /\ UNCHANGED notCfg

\* -------------------------------------------------------------------- delay
\* Times are fractions of a second.
Frac(a, b) == [num |-> a, den |-> b]

Event(op, n, t) == [op |-> op, n |-> n, t |-> t]

\* Mutant of byterate: one byte per bit time.
byteratePerBit(baudrate) == Frac(baudrate, 1)

\* byterate = baudrate / 10.0
byterate(baudrate) == Frac(baudrate, 10)

\* sleep_time = nb_bytes / byterate
sleep_time(nb_bytes, rate) == Frac(nb_bytes * rate.den, rate.num)

\* delay(nb_bytes, baudrate): `if not baudrate: return`, else one
\* gevent.sleep(sleep_time). The events the call adds to the log.
delay(nb_bytes, baudrate) ==
    <<Event("delay", nb_bytes, Frac(0, 1))>> \o
    (IF baudrate = None \/ baudrate = Some(0) THEN <<>>
     ELSE <<Event("sleep", nb_bytes, sleep_time(nb_bytes, byterate(baudrate[1])))>>)

\* The reads of a stream transport go through SimulatorServerMixin.ireadlines
\* / read1, which call delay; UDPServer.handle is given the datagram and
\* calls handle_message at once.
ReadDelay(kind, n, baudrate) ==
    IF kind \in {"tcp", "serial"} THEN delay(n, baudrate) ELSE <<>>

\* SerialServer.send calls delay before os.write; TCPServer.send and
\* UDPServer.send write.
SendDelay(kind, n, baudrate) ==
    IF kind = "serial" THEN delay(n, baudrate) ELSE <<>>

MsgLens == {1, 1000}

Bauds == {None, Some(0), Some(9600), Some(115200)}

\* A message of n bytes is read from the transport.
DRead(n) ==
    /\ dpc = "read"
    /\ dn < MaxMsgs
    /\ dn' = dn + 1
    /\ dlog' = dlog \o ReadDelay(dkind, n, dbaud)
    /\ dcur' = n
    /\ dpc' = "handle"
    /\ UNCHANGED <<dkind, dbaud, notDly>>

\* The message is handed to device.handle_message, which returns None
\* (m = 0 stands for None) or a reply of m bytes.
DHandle(m) ==
    /\ dpc = "handle"
    /\ dlog' = Append(dlog, Event("handle", dcur, Frac(0, 1)))
    /\ dcur' = m
    /\ dpc' = IF m = 0 THEN "read" ELSE "send"
    /\ UNCHANGED <<dkind, dbaud, dn, notDly>>

\* transport.send(channel, reply)
DSend ==
    /\ dpc = "send"
    /\ dlog' = (dlog \o SendDelay(dkind, dcur, dbaud))
                   \o <<Event("write", dcur, Frac(0, 1))>>
    /\ dpc' = "read"
    /\ UNCHANGED <<dkind, dbaud, dcur, dn, notDly>>

\* ------------------------------------------------- cooperative scheduling
\* The hub of gevent: no task holds the thread.
Hub == 0

\* Mutant of gevent_sleep: the task sleeps holding the thread.
time_sleep(c) == c

\* delay: gevent.sleep(sleep_time) suspends the task; the hub runs.
gevent_sleep(c) == Hub

\* The reads of a channel (a gevent socket file, a gevent FileObject) wait
\* for data in the hub.
channel_read(c) == Hub

\* A task is resumed by the hub, or goes on when it never left the thread.
CanRun(c) == cpu \in {Hub, c}

\* A connection is accepted; its handler task runs up to its first read.
CoAccept(c) ==
    /\ cpu = Hub
    /\ tk[c] = "none"
    /\ \A d \in Addrs : d < c => tk[d] # "none"
    /\ tk' = [tk EXCEPT ![c] = "read"]
    /\ cpu' = channel_read(c)
    /\ UNCHANGED <<cin, cdone, cbaud, notCoop>>

\* The client of connection c sends a message.
CoClientSend(c) ==
    /\ tk[c] # "none"
    /\ cin[c] = 0
    /\ cdone[c] < MaxMsgs
    /\ cin' = [cin EXCEPT ![c] = 1]
    /\ UNCHANGED <<tk, cpu, cdone, cbaud, notCoop>>

\* The read of connection c returns a message; ireadlines calls delay,
\* which sleeps when there is a baudrate; else the message is handled and
\* the task reads again.
CoReadReturns(c) ==
    /\ CanRun(c)
    /\ tk[c] = "read"
    /\ cin[c] = 1
    /\ cin' = [cin EXCEPT ![c] = 0]
    /\ IF cbaud
       THEN /\ tk' = [tk EXCEPT ![c] = "sleep"]
            /\ cpu' = gevent_sleep(c)
            /\ UNCHANGED cdone
       ELSE /\ cdone' = [cdone EXCEPT ![c] = @ + 1]
            /\ cpu' = channel_read(c)
            /\ UNCHANGED tk
    /\ UNCHANGED <<cbaud, notCoop>>

\* The sleep of connection c is over: the message is handled and the task
\* reads again.
CoWake(c) ==
    /\ CanRun(c)
    /\ tk[c] = "sleep"
    /\ tk' = [tk EXCEPT ![c] = "read"]
    /\ cdone' = [cdone EXCEPT ![c] = @ + 1]
    /\ cpu' = channel_read(c)
    /\ UNCHANGED <<cin, cbaud, notCoop>>

\* ------------------------------------------------------------ SerialServer
\* The most calls of the constructor, and of close(), in a behaviour.
MaxCalls == 2

MaxBroadcasts == 2

MaxStarts == 2

MaxMade == 2

MaxNoops == 1

MaxAcq == 3

MaxFrames == 3

MaxTriggers == 5

MaxReadouts == 2

MaxPos == 3

MaxPrepares == 3

\* os.path.islink(self.address)
islink(at) == at \in {"link", "stale"}

\* try: os.remove(self.address) except Exception: pass
TryRemove(f) == [f EXCEPT !.at = "nothing"]

\* link_path is the directory part of P, '' when P has none:
\* os.path.exists('') is false and os.makedirs('') raises.
MakedirsRaises(f) == f.dir = "nodir"

\* SerialServer.__init__ / set_listener(None): a pty is opened, what is at
\* P is removed, the directory of P is made when it is not there, and P is
\* linked to the tty of the slave.
SerialConstruct ==
    /\ ser.made < MaxCalls
    /\ ser.loop = "none"
    /\ ser.calls = 0
    /\ IF MakedirsRaises(TryRemove(fs))
       THEN /\ fs' = TryRemove(fs)
            /\ ser' = [ser EXCEPT !.made = @ + 1, !.ctor = "raised",
                                  !.master = "unset", !.slave = "unset",
                                  !.fdm = "none", !.fds = "none"]
       ELSE /\ fs' = [at |-> "link", dir |-> "exists"]
            /\ ser' = [ser EXCEPT !.made = @ + 1, !.ctor = "ok",
                                  !.master = "fd", !.slave = "fd",
                                  !.fdm = "open", !.fds = "open"]
    /\ UNCHANGED notSer

\* Somebody else removes the link.
ExtRemoveLink ==
    /\ ser.ctor = "ok"
    /\ fs.at = "link"
    /\ fs' = [fs EXCEPT !.at = "nothing"]
    /\ UNCHANGED <<ser, notSer>>

\* Somebody else closes the master, or the slave, descriptor.
ExtCloseMaster ==
    /\ ser.master = "fd"
    /\ ser.fdm = "open"
    /\ ser' = [ser EXCEPT !.fdm = "closed"]
    /\ UNCHANGED <<fs, notSer>>

ExtCloseSlave ==
    /\ ser.slave = "fd"
    /\ ser.fds = "open"
    /\ ser' = [ser EXCEPT !.fds = "closed"]
    /\ UNCHANGED <<fs, notSer>>

\* Mutant of Held: the descriptor is closed whatever the attribute holds.
HeldAlways(attr) == TRUE

\* `if self.master:` / `if self.slave:`
Held(attr) == attr = "fd"

\* os.close(fd) raises OSError unless fd is an open descriptor.
CloseRaises(attr, fd) == ~(attr = "fd" /\ fd = "open")

\* Where close() gets to: it raises at the master, raises at the slave, or
\* returns.
CloseEnd(sv) ==
    IF Held(sv.master) /\ CloseRaises(sv.master, sv.fdm) THEN "master"
    ELSE IF Held(sv.slave) /\ CloseRaises(sv.slave, sv.fds) THEN "slave"
    ELSE "ok"

\* The loop of serve_forever reads a master that close() has closed: it
\* stays blocked, or its read fails and it ends.
LoopAfterClose(sv) == {sv.loop} \cup (IF sv.loop = "running" THEN {"ended"} ELSE {})

\* SerialServer.stop / close: the link is removed when P is a link, then
\* the master and then the slave are closed and their attributes set to
\* None.
SerialClose ==
    /\ ser.ctor = "ok"
    /\ ser.calls < MaxCalls
    /\ fs' = IF islink(fs.at) THEN [fs EXCEPT !.at = "nothing"] ELSE fs
    /\ \E l \in LoopAfterClose(ser) :
          ser' = [ser EXCEPT
                    !.calls = @ + 1,
                    !.res = IF CloseEnd(ser) = "ok" THEN "ok" ELSE "raised",
                    !.fdm = IF Held(ser.master) /\ CloseEnd(ser) # "master"
                            THEN "closed" ELSE @,
                    !.master = IF Held(ser.master) /\ CloseEnd(ser) # "master"
                               THEN "None" ELSE @,
                    !.fds = IF Held(ser.slave) /\ CloseEnd(ser) = "ok"
                            THEN "closed" ELSE @,
                    !.slave = IF Held(ser.slave) /\ CloseEnd(ser) = "ok"
                              THEN "None" ELSE @,
                    !.loop = l]
    /\ UNCHANGED notSer

\* SerialServer.serve_forever: self.handle(self.fileobj), the one protocol
\* loop on the master.
SerialServe ==
    /\ ser.ctor = "ok"
    /\ ser.loop = "none"
    /\ ser.calls = 0
    /\ ser' = [ser EXCEPT !.loop = "running"]
    /\ UNCHANGED <<fs, notSer>>

\* A message comes on the serial line and is handled.
SerialMessage ==
    /\ ser.loop = "running"
    /\ ser.handled < MaxMsgs
    /\ ser' = [ser EXCEPT !.handled = @ + 1]
    /\ UNCHANGED <<fs, notSer>>

\* A message comes and the device raises: SimulatorServerMixin.handle logs
\* the error and returns, and serve_forever with it.
SerialHandlerRaise ==
    /\ ser.loop = "running"
    /\ ser.handled < MaxMsgs
    /\ ser' = [ser EXCEPT !.handled = @ + 1, !.loop = "ended"]
    /\ UNCHANGED <<fs, notSer>>

\* ----------------------------------------------- UDPServer.handle / send
Peers == {1, 2}

UdpPayloads == {<<>>, <<"A">>, <<"S", "LF">>}

NoSend == [data |-> <<>>, to |-> 0, sent |-> 0]

\* Mutant of SendMore: sendto is called once.
SendMoreOnce(nsent, total) == nsent = 0 /\ total > 0

\* while sent < total
SendMore(nsent, total) == nsent < total

\* UDPServer.handle(data, addr): a protocol object is made with addr as its
\* channel and its handle_message is given data; the device returns r. A
\* reply goes to UDPServer.send.
UdpDatagram(data, addr, r) ==
    /\ upc = "idle"
    /\ Len(urecv) < MaxDatagrams
    /\ urecv' = Append(urecv, [data |-> data, peer |-> addr])
    /\ uhandled' = Append(uhandled, [data |-> data, peer |-> addr])
    /\ IF SendsReply(r)
       THEN /\ ureplies' = Append(ureplies, [data |-> r[1], to |-> addr])
            /\ ucur' = [data |-> r[1], to |-> addr, sent |-> 0]
            /\ upc' = "send"
       ELSE UNCHANGED <<ureplies, ucur, upc>>
    /\ UNCHANGED <<uout, notUdp>>

\* The device raises: UDPServer.handle logs the error.
UdpDatagramRaise(data, addr) ==
    /\ upc = "idle"
    /\ Len(urecv) < MaxDatagrams
    /\ urecv' = Append(urecv, [data |-> data, peer |-> addr])
    /\ uhandled' = Append(uhandled, [data |-> data, peer |-> addr])
    /\ UNCHANGED <<ureplies, uout, ucur, upc, notUdp>>

\* sent += self.socket.sendto(data[sent:], channel): the socket takes k of
\* the bytes that are left.
UdpSendto(k) ==
    /\ upc = "send"
    /\ SendMore(ucur.sent, Len(ucur.data))
    /\ k \in 1..(Len(ucur.data) - ucur.sent)
    /\ uout' = Append(uout, [data |-> SubSeq(ucur.data, ucur.sent + 1, ucur.sent + k),
                              to |-> ucur.to])
    /\ ucur' = [ucur EXCEPT !.sent = @ + k]
    /\ UNCHANGED <<urecv, uhandled, ureplies, upc, notUdp>>

\* The peers that datagrams came from.
PeersSeen(recv) == {recv[i].peer : i \in 1..Len(recv)}

\* Mutant of UdpBroadcastOut: the message is sent to every peer seen.
RECURSIVE UdpBroadcastToAll(_, _, _)
UdpBroadcastToAll(out, peers, msg) ==
    IF peers = {} THEN out
    ELSE UdpBroadcastToAll(Append(out, [data |-> msg, to |-> Min(peers)]),
                           peers \ {Min(peers)}, msg)

\* UDPServer.broadcast(msg): pass. The sendto calls after it.
UdpBroadcastOut(out, peers, msg) == out

\* UDPServer.broadcast(msg) is called, at any moment.
UdpBroadcast(msg) ==
    /\ ubc < MaxBroadcasts
    /\ ubc' = ubc + 1
    /\ uout' = UdpBroadcastOut(uout, PeersSeen(urecv), msg)
    /\ UNCHANGED <<urecv, uhandled, ureplies, ucur, upc, notUbc>>

\* The loop of UDPServer.send ends.
UdpSendEnd ==
    /\ upc = "send"
    /\ ~SendMore(ucur.sent, Len(ucur.data))
    /\ upc' = "idle"
    /\ ucur' = NoSend
    /\ UNCHANGED <<urecv, uhandled, ureplies, uout, notUdp>>

\* ------------------------------------------- background tasks of devices
\* A client of device d can be served: the server is serving and the task
\* of one of the transports of the device runs.
Served(d) ==
    /\ lpc = "join"
    /\ \E k \in 1..Len(DevTransports(devTr, d)) : ltask[DevTransports(devTr, d)[k]] = "running"

\* Mutant of StopKills: Server.stop kills the background tasks.
StopKillsAll(a) == [d \in DOMAIN a |-> IF a[d] = "running" THEN "killed" ELSE a[d]]

\* Server.stop: what it does to the background tasks of the devices.
StopKills(a) == a

\* ACQ ON: self.acq_task = gevent.spawn(self.do_acq), unless a task runs.
AcqOn(d) ==
    /\ Served(d)
    /\ acq[d] # "running"
    /\ acq' = [acq EXCEPT ![d] = "running"]
    /\ UNCHANGED <<acqLate, notBg>>

\* The S command (stop, for the Mythen): self.acq_task.kill().
AcqKill(d) ==
    /\ Served(d)
    /\ acq[d] = "running"
    /\ acq' = [acq EXCEPT ![d] = "killed"]
    /\ UNCHANGED <<acqLate, notBg>>

\* do_acq: one turn of `while True: self.broadcast(...); gevent.sleep(nap)`.
AcqBroadcast(d) ==
    /\ acq[d] = "running"
    /\ acqLate' = (acqLate \/ lpc \in {"returned", "exit"})
    /\ UNCHANGED <<acq, notBg>>

\* Server.stop returns, with what it did to the background tasks.
StopReturnsBg ==
    /\ lpc \in {"stop", "clistop"}
    /\ li > Len(AllTransports(devTr))
    /\ lpc' = IF lpc = "clistop" THEN "exit"
              ELSE IF lintr THEN "clistop" ELSE "returned"
    /\ li' = 1
    /\ acq' = StopKills(acq)
    /\ UNCHANGED <<devTr, ltask, lstop, lintr, stopped, acqLate>>
    /\ UNCHANGED <<chanVars, srvVars, surv, cfgVars, dlyVars, coopVars, serVars, udpVars, fanVars, ctxVars, tailVars>>

\* ---------------------------------------------------- BaseDevice.broadcast
TransportKinds == {"serial", "tcp", "udp"}

\* transport.broadcast(msg) can raise: SerialServer.broadcast is an os.write
\* with no try (the master may be closed); TCPServer.broadcast catches the
\* errors of sendall inside its loop over self.connections.items(), but
\* not the RuntimeError of that loop when a connection comes or goes
\* during a sendall; UDPServer.broadcast is `pass`.
CanRaise(kind) == kind \in {"serial", "tcp"}

\* Mutant of AfterRaise: the error of a transport is caught and the loop
\* goes on.
AfterRaiseCaught == "loop"

\* An exception of transport.broadcast(msg) leaves BaseDevice.broadcast.
AfterRaise == "raised"

\* Device.broadcast(msg) is called.
DevBroadcast ==
    /\ dbpc \in {"idle", "done", "raised"}
    /\ dbn < MaxBroadcasts
    /\ dbn' = dbn + 1
    /\ dbi' = 1
    /\ dbCalls' = [i \in 1..Len(dbTr) |-> 0]
    /\ dbpc' = "loop"
    /\ UNCHANGED <<dbTr, notFan>>

\* for transport in self.transports: transport.broadcast(msg), which
\* returns or raises.
DevBroadcastStep(raises) ==
    /\ dbpc = "loop"
    /\ dbi <= Len(dbTr)
    /\ raises => CanRaise(dbTr[dbi])
    /\ dbCalls' = [dbCalls EXCEPT ![dbi] = @ + 1]
    /\ dbi' = dbi + 1
    /\ dbpc' = IF raises THEN AfterRaise ELSE "loop"
    /\ UNCHANGED <<dbTr, dbn, notFan>>

\* The for loop ends.
DevBroadcastEnd ==
    /\ dbpc = "loop"
    /\ dbi > Len(dbTr)
    /\ dbpc' = "done"
    /\ UNCHANGED <<dbTr, dbi, dbCalls, dbn, notFan>>

\* --------------------------------------------------------- server_context
\* transport.start() raises: SerialServer has no start method (an
\* AttributeError); start of a TCP or UDP transport binds the socket, which
\* can fail.
StartRaises(kind, fails) == kind = "serial" \/ fails

\* Mutant of SetWhen: started_event is set before the transports are
\* started.
SetEarly(i, n) == TRUE

\* started_event.set() comes after the loops over the transports.
SetWhen(i, n) == i > n

\* server_context.start: the thread of _run is started with a new
\* started_event, and the caller waits for the event.
CtxStartCall ==
    /\ ctxCaller \in {"init", "left"}
    /\ ctxn < MaxStarts
    /\ ctxn' = ctxn + 1
    /\ ctxCaller' = "waiting"
    /\ ctxRun' = "create"
    /\ ctxEvent' = FALSE
    /\ ctxi' = 1
    /\ ctxStarted' = [i \in 1..Len(ctxTr) |-> FALSE]
    /\ ctxTask' = "none"
    /\ ctxStops' = [i \in 1..Len(ctxTr) |-> 0]
    /\ ctxAsync' = "idle"
    /\ UNCHANGED <<ctxTr, ctxNoops, notCtx>>

\* _run: create_server_from_config, the watcher and stop_event; an
\* exception ends the thread.
CtxCreate(raises) ==
    /\ ctxRun = "create"
    /\ ctxRun' = IF raises THEN "died" ELSE "loop"
    /\ UNCHANGED <<ctxTr, ctxStarted, ctxi, ctxEvent, ctxCaller, ctxn,
                   ctxTask, ctxStops, ctxAsync, ctxNoops, notCtx>>

\* _run: transport.start() of the next transport, which returns or raises;
\* an exception ends the thread.
CtxTransportStart(fails) ==
    /\ ctxRun = "loop"
    /\ ctxi <= Len(ctxTr)
    /\ IF StartRaises(ctxTr[ctxi], fails)
       THEN /\ ctxRun' = "died"
            /\ UNCHANGED <<ctxStarted, ctxi>>
       ELSE /\ ctxStarted' = [ctxStarted EXCEPT ![ctxi] = TRUE]
            /\ ctxi' = ctxi + 1
            /\ ctxRun' = "loop"
    /\ UNCHANGED <<ctxTr, ctxEvent, ctxCaller, ctxn,
                   ctxTask, ctxStops, ctxAsync, ctxNoops, notCtx>>

\* _run: server_task = gevent.spawn(self.server.serve_forever);
\* started_event.set(); then self.stop_event.wait(), which lets the hub run.
CtxSet ==
    /\ ctxRun = "loop"
    /\ SetWhen(ctxi, Len(ctxTr))
    /\ ~ctxEvent \/ ctxi > Len(ctxTr)
    /\ ctxEvent' = TRUE
    /\ ctxRun' = IF ctxi > Len(ctxTr) THEN "waiting" ELSE "loop"
    /\ ctxTask' = IF ctxi > Len(ctxTr) THEN "spawned" ELSE ctxTask
    /\ UNCHANGED <<ctxTr, ctxStarted, ctxi, ctxCaller, ctxn,
                   ctxStops, ctxAsync, ctxNoops, notCtx>>

\* started_event.wait() returns: start(), or __enter__, returns.
CtxStartReturns ==
    /\ ctxCaller = "waiting"
    /\ ctxEvent
    /\ ctxCaller' = "entered"
    /\ UNCHANGED <<ctxTr, ctxStarted, ctxi, ctxRun, ctxEvent, ctxn,
                   ctxTask, ctxStops, ctxAsync, ctxNoops, notCtx>>

\* The hub runs server_task for the first time: Server.serve_forever calls
\* self.start() and waits in gevent.joinall(tasks), inside its try.
CtxTaskRuns ==
    /\ ctxRun = "waiting"
    /\ ctxTask = "spawned"
    /\ ctxTask' = "serving"
    /\ UNCHANGED <<ctxTr, ctxStarted, ctxi, ctxRun, ctxEvent, ctxCaller, ctxn,
                   ctxStops, ctxAsync, ctxNoops, notCtx>>

\* server_context.stop with self.thread None (before start, or after a
\* stop): `if self.thread is None: return`.
CtxStopNoop ==
    /\ ctxCaller \in {"init", "left"}
    /\ ctxNoops < MaxNoops
    /\ ctxNoops' = ctxNoops + 1
    /\ UNCHANGED <<ctxTr, ctxStarted, ctxi, ctxRun, ctxEvent, ctxCaller, ctxn,
                   ctxTask, ctxStops, ctxAsync, notCtx>>

\* server_context.stop: self.watcher.start(self.stop_event.set);
\* self.watcher.send(); and the caller joins the thread.
CtxStop ==
    /\ ctxCaller = "entered"
    /\ ctxCaller' = "joining"
    /\ ctxAsync' = IF ctxTask = "spawned" THEN "early" ELSE "late"
    /\ UNCHANGED <<ctxTr, ctxStarted, ctxi, ctxRun, ctxEvent, ctxn,
                   ctxTask, ctxStops, ctxNoops, notCtx>>

\* Mutant of CallbacksFirst: the hub may handle the watcher before it runs
\* the greenlet that was spawned.
AnyOrder(task) == TRUE

\* The hub runs the callbacks that are queued (the first switch to a
\* spawned greenlet is one) before it polls for the events of watchers.
CallbacksFirst(task) == task # "spawned"

\* The hub handles the watcher: stop_event.set(), and _run goes on to
\* server_task.kill().
CtxWatcher ==
    /\ ctxRun = "waiting"
    /\ ctxAsync # "idle"
    /\ CallbacksFirst(ctxTask)
    /\ ctxRun' = "killing"
    /\ ctxi' = 1
    /\ ctxTask' = IF ctxTask = "spawned" THEN "never" ELSE ctxTask
    /\ UNCHANGED <<ctxTr, ctxStarted, ctxEvent, ctxCaller, ctxn,
                   ctxStops, ctxAsync, ctxNoops, notCtx>>

\* server_task.kill() raises GreenletExit in joinall; the finally clause
\* of Server.serve_forever runs self.stop(): transport.stop() of the next
\* transport.
CtxTaskStop ==
    /\ ctxRun = "killing"
    /\ ctxTask = "serving"
    /\ ctxi <= Len(ctxTr)
    /\ ctxStops' = [ctxStops EXCEPT ![ctxi] = @ + 1]
    /\ ctxi' = ctxi + 1
    /\ UNCHANGED <<ctxTr, ctxStarted, ctxRun, ctxEvent, ctxCaller, ctxn,
                   ctxTask, ctxAsync, ctxNoops, notCtx>>

\* Server.stop returns and server_task is dead.
CtxTaskDead ==
    /\ ctxRun = "killing"
    /\ ctxTask = "serving"
    /\ ctxi > Len(ctxTr)
    /\ ctxTask' = "dead"
    /\ UNCHANGED <<ctxTr, ctxStarted, ctxi, ctxRun, ctxEvent, ctxCaller, ctxn,
                   ctxStops, ctxAsync, ctxNoops, notCtx>>

\* _run: server_task.kill() returns once the greenlet is dead (one that
\* never ran is dead at once); self.watcher.close(); the thread ends.
CtxRunEnds ==
    /\ ctxRun = "killing"
    /\ ctxTask \in {"dead", "never"}
    /\ ctxRun' = "ended"
    /\ UNCHANGED <<ctxTr, ctxStarted, ctxi, ctxEvent, ctxCaller, ctxn,
                   ctxTask, ctxStops, ctxAsync, ctxNoops, notCtx>>

\* self.thread.join() returns; self.thread = None.
CtxJoined ==
    /\ ctxCaller = "joining"
    /\ ctxRun = "ended"
    /\ ctxCaller' = "left"
    /\ ctxRun' = "none"
    /\ UNCHANGED <<ctxTr, ctxStarted, ctxi, ctxEvent, ctxn,
                   ctxTask, ctxStops, ctxAsync, ctxNoops, notCtx>>

\* ------------------------------------------- create_device: one transport
\* The values of the baudrate key of a transport entry, and of the baudrate
\* attribute of a device (BaseDevice.baudrate is None).
EntryBauds == {Absent, "None", "9600"}

DeviceBauds == {"None", "1200"}

KnownTypes == {Absent, "tcp", "udp", "serial"}

\* Mutant of setdefault: the value is set whether the key is there or not.
setalways(v, default) == default

\* ikwargs.setdefault('baudrate', device.baudrate)
setdefault(v, default) == IF v = Absent THEN default ELSE v

\* One turn of the loop of create_device over transports_info, and
\* SimulatorServerMixin.__init__: self.baudrate = kwargs.get('baudrate', None).
MakeTransport(itype, ibaud, devbaud) ==
    /\ Len(tb) < MaxMade
    /\ tb' = Append(tb, [type |-> itype, entry |-> ibaud, device |-> devbaud,
                          iklass |-> NextIklass(itype, Unbound),
                          baudrate |-> setdefault(ibaud, devbaud)])
    /\ UNCHANGED notTb

\* ---------------------------------- create_device: a device that is rejected
\* Transport entries: of a known type with its url, a tcp entry without
\* url (TCPServer.__init__ raises KeyError on kwargs.pop("url")), and one
\* of an unknown type.
TransportEntries == {"serial", "tcp", "udp", "tcp-nourl", "bogus"}

TypeOf(e) == IF e = "tcp-nourl" THEN "tcp" ELSE e

CtorRaises(e) == e = "tcp-nourl"

\* What the constructor of a transport takes from the system:
\* SerialServer.set_listener opens a pty and makes the link; a TCPServer
\* or UDPServer opens its socket in start() only.
Takes(iklass) == IF iklass = "SerialServer" THEN 1 ELSE 0

\* Server.__init__ `except Exception`: what is left of the ptys and links
\* of the transports made, after the error is logged.
AfterReject(held) == held

\* create_device of a device entry of a registered class, with the
\* transport entries ts: the device is constructed and the loop begins.
RjBegin(ts) ==
    /\ rj.pc \in {"idle", "rejected", "registered"}
    /\ rj.n < MaxMade
    /\ rj' = [pc |-> "loop", todo |-> ts, iklass |-> Unbound, made |-> <<>>,
              held |-> 0, n |-> rj.n + 1]
    /\ UNCHANGED notRj

\* One turn of the loop over transports_info: iklass is bound by the type
\* and transports.append(iklass(...)); an exception (iklass not bound, or
\* raised by the constructor) goes to Server.__init__, which logs it.
RjStep ==
    /\ rj.pc = "loop"
    /\ rj.todo # <<>>
    /\ LET k == NextIklass(TypeOf(Head(rj.todo)), rj.iklass)
       IN IF k = Unbound \/ CtorRaises(Head(rj.todo))
          THEN rj' = [rj EXCEPT !.pc = "rejected", !.iklass = k,
                                !.held = AfterReject(@)]
          ELSE rj' = [rj EXCEPT !.todo = Tail(@), !.iklass = k,
                                !.made = Append(@, k),
                                !.held = @ + Takes(k)]
    /\ UNCHANGED notRj

\* device.transports = transports; self.devices[name] = device.
RjEnd ==
    /\ rj.pc = "loop"
    /\ rj.todo = <<>>
    /\ rj' = [rj EXCEPT !.pc = "registered"]
    /\ UNCHANGED notRj

\* ------------------------------------------------ Mythen2: start and stop
\* gevent's Greenlet.kill: a greenlet that has not run yet never runs, one
\* that runs gets GreenletExit, one that has ended stays as it is.
Killed(st) ==
    CASE st = "spawned" -> "never"
      [] st = "running" -> "killed"
      [] OTHER -> st

\* Mutant of OnStart: the task before is killed.
OnStartKill(tasks) == [i \in 1..Len(tasks) |-> Killed(tasks[i])]

\* Mythen2.start_acquisition: what happens to the tasks spawned before,
\* when self.acq_task is bound to the new task.
OnStart(tasks) == tasks

\* The hub runs a task that was spawned: BaseAcquisition.run begins.
MtRun(i) ==
    /\ i \in 1..Len(mt.tasks)
    /\ mt.tasks[i] = "spawned"
    /\ mt' = [mt EXCEPT !.tasks[i] = "running"]
    /\ UNCHANGED notMt

\* BaseAcquisition.run ends: all frames are acquired.
MtEnd(i) ==
    /\ i \in 1..Len(mt.tasks)
    /\ mt.tasks[i] = "running"
    /\ mt' = [mt EXCEPT !.tasks[i] = "done"]
    /\ UNCHANGED notMt

\* '-start': self.acq_task = start_acquisition(self.config).
MtStartCmd ==
    /\ Len(mt.tasks) < MaxAcq
    /\ mt' = [tasks |-> Append(OnStart(mt.tasks), "spawned"), last |-> "start"]
    /\ UNCHANGED notMt

\* '-stop': self.acq_task.kill().
MtStopCmd ==
    /\ mt' = [tasks |-> [mt.tasks EXCEPT ![Len(mt.tasks)] = Killed(@)],
              last |-> "stop"]
    /\ UNCHANGED notMt

\* ------------------------------------------ Mythen2: TriggerMultiAcquisition
\* Mutant of WhileAcquiring: self._trigger stays an Event while a frame is
\* acquired.
WhileAcquiringEvent == "clear"

\* self._trigger = None, after self._trigger.wait() has returned.
WhileAcquiring == "None"

\* BaseAcquisition.trigger, called for the signal "trigger": missed when
\* self._trigger is None, else self._trigger.set().
TgTrigger ==
    /\ tg.accepted + tg.missed < MaxTriggers
    /\ IF tg.trig = "None"
       THEN tg' = [tg EXCEPT !.missed = @ + 1]
       ELSE tg' = [tg EXCEPT !.trig = "set", !.accepted = @ + 1]
    /\ UNCHANGED notTg

\* steps: self._trigger.wait() returns, self._trigger = None, and
\* self.acquire(frame_nb) begins and sleeps.
TgAcquire ==
    /\ tg.pc = "wait"
    /\ tg.trig = "set"
    /\ tg' = [tg EXCEPT !.pc = "acquiring", !.trig = WhileAcquiring]
    /\ UNCHANGED notTg

\* acquire returns the frame, run puts it in the buffer,
\* self._trigger = gevent.event.Event(), and the loop goes on to the next
\* frame_nb, or ends.
TgAcquired ==
    /\ tg.pc = "acquiring"
    /\ tg' = [tg EXCEPT !.buf = Append(@, tg.frame),
                        !.trig = "clear",
                        !.frame = @ + 1,
                        !.pc = IF tg.frame + 1 < tg.nb THEN "wait" ELSE "done"]
    /\ UNCHANGED notTg

\* ---------------------------------------------- Mythen2: run and readout
\* The hub runs the task: BaseAcquisition.run sets self.finished = False.
RaRun ==
    /\ ra.st = "spawned"
    /\ ra' = [ra EXCEPT !.st = "running", !.finished = "False"]
    /\ UNCHANGED <<rd, notRa>>

\* InternalTriggerAcquisition.steps yields the next frame and run puts it
\* in the buffer.
RaFrame ==
    /\ ra.st = "running"
    /\ ra.frame < ra.nb
    /\ ra' = [ra EXCEPT !.buf = Append(@, ra.frame), !.put = Append(@, ra.frame),
                        !.frame = @ + 1]
    /\ UNCHANGED <<rd, notRa>>

\* steps is exhausted: the finally clause of run sets self.finished = True.
RaEnd ==
    /\ ra.st = "running"
    /\ ra.frame = ra.nb
    /\ ra' = [ra EXCEPT !.st = "done", !.finished = "True"]
    /\ UNCHANGED <<rd, notRa>>

\* '-stop': self.acq_task.kill(). A task that runs gets GreenletExit in a
\* sleep of acquire, and the finally clause of run sets self.finished =
\* True; a task that has not run yet never runs.
RaKill ==
    /\ ra.st \in {"spawned", "running"}
    /\ ra' = [ra EXCEPT !.st = Killed(@),
                        !.finished = IF ra.st = "running" THEN "True" ELSE @]
    /\ UNCHANGED <<rd, notRa>>

\* '-readout n' is handled: nb_frames = int(data[0]) if data else 1.
RaReadout(n) ==
    /\ rd.pc \in {"idle", "done"}
    /\ rd.k < MaxReadouts
    /\ rd' = [rd EXCEPT !.pc = IF n = 0 THEN "done" ELSE "reading",
                        !.n = n, !.got = <<>>, !.k = @ + 1]
    /\ UNCHANGED <<ra, notRa>>

\* yield self.acq.buffer.get(): Queue.get gives the oldest frame, and
\* blocks while the buffer is empty.
RaGet ==
    /\ rd.pc = "reading"
    /\ ra.buf # <<>>
    /\ rd' = [rd EXCEPT !.got = Append(@, Head(ra.buf)),
                        !.all = Append(@, Head(ra.buf)),
                        !.pc = IF Len(rd.got) + 1 = rd.n THEN "done" ELSE "reading"]
    /\ ra' = [ra EXCEPT !.buf = Tail(@)]
    /\ UNCHANGED notRa

\* ------------------------------------------------------------ IcePAP: Axis
\* self._destination = None
NoDest == 0 - 1

Abs(x) == IF x < 0 THEN 0 - x ELSE x

\* Axis.position (a query, which pos() is): the position of an axis that
\* moves, from the trajectory and the time since the start. The motion
\* ends when the position is the destination, or when the time of the
\* trajectory is over: then the position becomes self._destination.
\* Positions and times are whole numbers and the speed is one.
Position(a) ==
    IF a.ready \/ a.dest = NoDest THEN a
    ELSE IF a.pos = a.dest THEN [a EXCEPT !.ready = TRUE]
    ELSE IF a.now < a.t3 THEN [a EXCEPT !.pos = a.x0 + a.sign * a.now]
    ELSE [a EXCEPT !.pos = a.dest, !.ready = TRUE]

\* Axis.preparemove(d), power on and no limit active: the destination is
\* stored, the position is read, and then: already on position; or the
\* axis is not ready and RuntimeError is raised; or the trajectory is
\* computed.
Preparemove(a, d) ==
    LET b == Position([a EXCEPT !.dest = d, !.np = @ + 1])
    IN IF b.pos = d THEN [b EXCEPT !.onpos = TRUE]
       ELSE IF ~b.ready THEN [b EXCEPT !.onpos = FALSE, !.rej = @ + 1]
       ELSE [b EXCEPT !.onpos = FALSE,
                      !.x0 = b.pos,
                      !.sign = IF b.pos > d THEN 0 - 1 ELSE 1,
                      !.t3 = Abs(d - b.pos)]

AxPreparemove(d) ==
    /\ ax.np < MaxPrepares
    /\ ax' = Preparemove(ax, d)
    /\ UNCHANGED notAx

\* Axis.startmove: unless on position, the axis is set moving and
\* self._start_time = time.time().
AxStartmove ==
    /\ ax.dest # NoDest
    /\ ~ax.onpos
    /\ ax.ready
    /\ ax' = [ax EXCEPT !.ready = FALSE, !.now = 0, !.dest0 = ax.dest]
    /\ UNCHANGED notAx

\* Time passes while the axis moves.
AxTick ==
    /\ ~ax.ready
    /\ ax.now < ax.t3
    /\ ax' = [ax EXCEPT !.now = @ + 1]
    /\ UNCHANGED notAx

\* A client asks for the position.
AxPosition ==
    /\ ~ax.ready
    /\ ax' = Position(ax)
    /\ UNCHANGED notAx

\* ------------------------------------------------------- specifications
\* The messages of a byte stream under delimited framing: the non-empty
\* segments that a terminator follows.
Ref(s, sep) == NonEmpty(Front(split(s, sep)))

\* A client's messages on the wire, each followed by the terminator.
Terminated(ms, sep) == Flatten([i \in 1..Len(ms) |-> ms[i] \o sep])

\* The state of a channel whose handler has just started.
ChanStart ==
    /\ wire = stream
    /\ avail = <<>>
    /\ peerClosed = FALSE
    /\ pc = "read"
    /\ closedBy = "none"
    /\ buff = <<>>
    /\ lines = <<>>
    /\ handled = <<>>
    /\ prod = <<>>
    /\ cur = <<>>
    /\ nwr = 0
    /\ rx = <<>>

\* The servers of a device that have just started.
SrvStart ==
    /\ sconn = [c \in Addrs |-> "none"]
    /\ connections = <<>>
    /\ ndel = [c \in Addrs |-> 0]
    /\ bc = NoIter
    /\ bcSnap = {}
    /\ bcGone = {}
    /\ bcGot = {}
    /\ bcLogged = {}
    /\ udp = [n |-> 0, logged |-> 0, last |-> "none"]
    /\ surv = [who |-> Free, did |-> "-", acc |-> FALSE]

\* A server with no device, not started.
LifeStart ==
    /\ devTr = <<>>
    /\ ltask = <<>>
    /\ lstop = <<>>
    /\ lpc = "init"
    /\ li = 1
    /\ lintr = FALSE
    /\ stopped = FALSE

\* self.devices = {}, before the first entry.
CfgStart ==
    /\ devices = [k \in Names \cup Classes |-> NoDevice]
    /\ cfgLast = [entry |-> [name |-> Absent, class |-> Absent, transports |-> <<>>],
                  ok |-> FALSE, made |-> <<>>]
    /\ cfgOut = <<>>

\* A transport with no baudrate that has read nothing.
DlyStart ==
    /\ dkind = "tcp"
    /\ dbaud = None
    /\ dpc = "read"
    /\ dcur = 0
    /\ dn = 0
    /\ dlog = <<>>

\* No connection, the hub running.
CoopStart ==
    /\ tk = [c \in Addrs |-> "none"]
    /\ cpu = Hub
    /\ cin = [c \in Addrs |-> 0]
    /\ cdone = [c \in Addrs |-> 0]
    /\ cbaud = FALSE

\* No SerialServer yet; nothing at P, whose directory exists.
SerStart ==
    /\ fs = [at |-> "nothing", dir |-> "exists"]
    /\ ser = [master |-> "unset", slave |-> "unset", fdm |-> "none", fds |-> "none",
              made |-> 0, ctor |-> "-", calls |-> 0, res |-> "-",
              loop |-> "none", handled |-> 0]

\* BaseDevice.__init__ of every device: no background task (acq_task = None).
BgStart ==
    /\ acq = [d \in 1..Len(devTr) |-> "none"]
    /\ acqLate = FALSE

\* A device without transports, broadcast not called.
FanStart ==
    /\ dbTr = <<>>
    /\ dbi = 1
    /\ dbCalls = <<>>
    /\ dbn = 0
    /\ dbpc = "idle"

\* server_context.__init__: self.thread = None.
CtxStart ==
    /\ ctxTr = <<>>
    /\ ctxStarted = <<>>
    /\ ctxi = 1
    /\ ctxRun = "none"
    /\ ctxEvent = FALSE
    /\ ctxCaller = "init"
    /\ ctxn = 0
    /\ ctxTask = "none"
    /\ ctxStops = <<>>
    /\ ctxAsync = "idle"
    /\ ctxNoops = 0

\* No datagram yet.
UdpStart ==
    /\ urecv = <<>>
    /\ uhandled = <<>>
    /\ ureplies = <<>>
    /\ uout = <<>>
    /\ ucur = NoSend
    /\ upc = "idle"

\* No transport made yet.
TbStart == tb = <<>>

\* UDPServer.broadcast not called yet.
UbcStart == ubc = 0

\* No device entry handled yet.
RjStart ==
    rj = [pc |-> "idle", todo |-> <<>>, iklass |-> Unbound, made |-> <<>>,
          held |-> 0, n |-> 0]

\* Mythen2.__init__: self.start_acquisition(0), the dummy acquisition.
MtStart == mt = [tasks |-> <<"spawned">>, last |-> "init"]

\* BaseAcquisition.__init__ of an acquisition of nb frames: the buffer is
\* empty and self._trigger is a new Event.
NewAcq(nb) ==
    [pc |-> IF nb = 0 THEN "done" ELSE "wait", trig |-> "clear", frame |-> 0,
     nb |-> nb, buf |-> <<>>, accepted |-> 0, missed |-> 0]

TgStart == tg = NewAcq(0)

\* start_acquisition: an acquisition of nb frames whose task is spawned.
NewRun(nb) ==
    [st |-> "spawned", finished |-> "None", nb |-> nb, frame |-> 0,
     buf |-> <<>>, put |-> <<>>]

NoReadout == [pc |-> "idle", n |-> 0, got |-> <<>>, all |-> <<>>, k |-> 0]

RaStart ==
    /\ ra = NewRun(0)
    /\ rd = NoReadout

\* Axis.__init__ of an axis at position p: no destination, ready.
NewAxis(p) ==
    [pos |-> p, dest |-> NoDest, onpos |-> FALSE, ready |-> TRUE,
     x0 |-> 0, sign |-> 1, t3 |-> 0, now |-> 0, dest0 |-> NoDest,
     np |-> 0, rej |-> 0]

AxStart == ax = NewAxis(0)

TailStart ==
    /\ TbStart
    /\ UbcStart
    /\ RjStart
    /\ MtStart
    /\ TgStart
    /\ RaStart
    /\ AxStart

PreStart ==
    /\ CoopStart
    /\ SerStart
    /\ UdpStart
    /\ BgStart
    /\ FanStart
    /\ CtxStart

ExtStart ==
    /\ CoopStart
    /\ SerStart
    /\ UdpStart
    /\ BgStart
    /\ FanStart
    /\ CtxStart
    /\ TailStart

\* Framing: any byte stream, cut into packets in any way, read by
\* read_messages; each message goes to a device that answers nothing.
FramingInit ==
    /\ nl \in Newlines
    /\ isgen = FALSE
    /\ stream \in SeqsUpTo(Bytes, MaxStream)
    /\ sent = Ref(stream, nl)
    /\ ChanStart
    /\ SrvStart
    /\ LifeStart
    /\ CfgStart
    /\ DlyStart
    /\ ExtStart

FramingNext ==
    \/ Arrive
    \/ PeerClose
    \/ ReadLineFast
    \/ ReadCustom
    \/ ReadError
    \/ HandleNone

SpecFraming == FramingInit /\ [][FramingNext]_vars

\* Raw chunks: any byte stream, cut into packets in any way, read by the
\* binary protocol; each message goes to a device that answers nothing.
RawInit ==
    /\ FramingInit
    /\ nl = LF

RawNext ==
    \/ Arrive
    \/ PeerClose
    \/ ReadRaw
    \/ ReadError
    \/ HandleNone

SpecRaw == RawInit /\ [][RawNext]_vars

\* Dispatch: a client that sends whole terminated messages to a device that
\* answers with nothing, one reply or a lazy sequence of replies.
ClientMsgs == {<<"A">>, <<"S">>}

Init ==
    /\ nl \in Newlines
    /\ isgen \in BOOLEAN
    /\ sent \in SeqsUpTo(ClientMsgs, MaxMsgs)
    /\ stream = Terminated(sent, nl)
    /\ ChanStart
    /\ SrvStart
    /\ LifeStart
    /\ CfgStart
    /\ DlyStart
    /\ ExtStart

Next ==
    \/ Arrive
    \/ PeerClose
    \/ ReadLineFast
    \/ ReadCustom
    \/ ReadError
    \/ HandleNone
    \/ HandleReply
    \/ HandleRaise
    \/ GenStart
    \/ \E r \in ReplyValues : GenYield(r)
    \/ GenEnd
    \/ GenRaise
    \/ Send

Spec == Init /\ [][Next]_vars

\* The servers: connections come and go, their messages are answered, a
\* task broadcasts, datagrams arrive.
ServerInit ==
    /\ nl = LF
    /\ isgen = FALSE
    /\ sent = <<>>
    /\ stream = <<>>
    /\ ChanStart
    /\ SrvStart
    /\ LifeStart
    /\ CfgStart
    /\ DlyStart
    /\ ExtStart

ServerNext ==
    \/ \E c \in Addrs : Accept(c) /\ UNCHANGED surv
    \/ \E c \in Addrs : SrvReply(c) /\ UNCHANGED surv
    \/ \E c \in Addrs : SrvSent(c) /\ UNCHANGED surv
    \/ \E c \in Addrs : SrvEOF(c) /\ UNCHANGED surv
    \/ \E c \in Addrs : SrvReadError(c) /\ UNCHANGED surv
    \/ \E c \in Addrs : SrvSendError(c) /\ UNCHANGED surv
    \/ \E c \in Addrs : Kill(c) /\ UNCHANGED surv
    \/ BroadcastStart /\ UNCHANGED surv
    \/ \E ok \in BOOLEAN : BroadcastSent(ok) /\ UNCHANGED surv

SpecServer == ServerInit /\ [][ServerNext]_vars

\* Isolation: the same connections and the datagrams of the UDP server,
\* watched by the observer: when a connection fails the observer picks one
\* that is open and follows it.
Failed(c) ==
    IF surv.who = Free /\ \E d \in Addrs \ {c} : Running(sconn[d])
    THEN \E d \in Addrs \ {c} : Running(sconn[d]) /\ surv' = [surv EXCEPT !.who = d]
    ELSE UNCHANGED surv

IsolationNext ==
    \/ \E c \in Addrs :
          /\ Accept(c)
          /\ surv' = [surv EXCEPT !.acc = @ \/ \E d \in Addrs : sconn[d] = "error"]
    \/ \E c \in Addrs :
          /\ SrvReply(c)
          /\ surv' = IF surv.who = c /\ surv.did = "-"
                     THEN [surv EXCEPT !.did = "handled"] ELSE surv
    \/ \E c \in Addrs :
          /\ SrvSent(c)
          /\ surv' = IF surv.who = c /\ surv.did = "handled"
                     THEN [surv EXCEPT !.did = "answered"] ELSE surv
    \/ \E c \in Addrs : SrvEOF(c) /\ UNCHANGED surv
    \/ \E c \in Addrs : SrvReadError(c) /\ Failed(c)
    \/ \E c \in Addrs : SrvSendError(c) /\ Failed(c)
    \/ \E c \in Addrs : Kill(c) /\ UNCHANGED surv
    \/ UdpHandle /\ UNCHANGED surv
    \/ UdpRaise /\ UNCHANGED surv

SpecIsolation == ServerInit /\ [][IsolationNext]_vars

\* The life of a server: devices with their transports are registered, the
\* command line calls serve_forever, transports end or fail, Ctrl-C may be
\* pressed, and a stop() may raise.
LifeInit ==
    /\ nl = LF
    /\ isgen = FALSE
    /\ sent = <<>>
    /\ stream = <<>>
    /\ ChanStart
    /\ SrvStart
    /\ devTr \in SeqsUpTo(0..MaxTransports, MaxDevices)
    /\ Len(AllTransports(devTr)) <= MaxTasks
    /\ ltask = [t \in TransportSet(devTr) |-> "none"]
    /\ lstop = [t \in TransportSet(devTr) |-> 0]
    /\ lpc = "init"
    /\ li = 1
    /\ lintr = FALSE
    /\ stopped = FALSE
    /\ CfgStart
    /\ DlyStart
    /\ ExtStart

LifeNext ==
    \/ ServerStart
    \/ \E t \in TransportSet(devTr) : TaskEnd(t, "done")
    \/ \E t \in TransportSet(devTr) : TaskEnd(t, "failed")
    \/ JoinAllReturns
    \/ Interrupt
    \/ StopCall(FALSE)
    \/ StopCall(TRUE)
    \/ StopReturns

SpecLife == LifeInit /\ [][LifeNext]_vars

\* Stopping: the connections of a TCP transport on which stop() is called
\* at some moment.
StopNext ==
    \/ \E c \in Addrs : ~stopped /\ Accept(c) /\ UNCHANGED surv
    \/ \E c \in Addrs : SrvReply(c) /\ UNCHANGED surv
    \/ \E c \in Addrs : SrvSent(c) /\ UNCHANGED surv
    \/ \E c \in Addrs : SrvEOF(c) /\ UNCHANGED surv
    \/ \E c \in Addrs : SrvReadError(c) /\ UNCHANGED surv
    \/ \E c \in Addrs : SrvSendError(c) /\ UNCHANGED surv
    \/ TransportStop

SpecStop == ServerInit /\ [][StopNext]_vars

\* Configuration: Server.__init__ is given a list of device entries, any
\* entries in any order.
ConfigNext == \E e \in Entries : CreateEntry(e)

SpecConfig == ServerInit /\ [][ConfigNext]_vars

\* Delays: a transport of any type, with any baudrate, reads messages and
\* sends the replies of the device.
DelayInit ==
    /\ nl = LF
    /\ isgen = FALSE
    /\ sent = <<>>
    /\ stream = <<>>
    /\ ChanStart
    /\ SrvStart
    /\ LifeStart
    /\ CfgStart
    /\ dkind \in {"tcp", "udp", "serial"}
    /\ dbaud \in Bauds
    /\ dpc = "read"
    /\ dcur = 0
    /\ dn = 0
    /\ dlog = <<>>
    /\ ExtStart

DelayNext ==
    \/ \E n \in MsgLens : DRead(n)
    \/ \E m \in MsgLens \cup {0} : DHandle(m)
    \/ DSend

SpecDelay == DelayInit /\ [][DelayNext]_vars

\* All the parts but those a specification of parts 6 and later is about,
\* at rest.
CoreStart ==
    /\ nl = LF
    /\ isgen = FALSE
    /\ sent = <<>>
    /\ stream = <<>>
    /\ ChanStart
    /\ SrvStart
    /\ LifeStart
    /\ CfgStart
    /\ DlyStart

\* Scheduling: connections come, their clients send messages or stay
\* silent, on a transport with or without a baudrate.
CoopInit ==
    /\ CoreStart
    /\ tk = [c \in Addrs |-> "none"]
    /\ cpu = Hub
    /\ cin = [c \in Addrs |-> 0]
    /\ cdone = [c \in Addrs |-> 0]
    /\ cbaud \in BOOLEAN
    /\ SerStart
    /\ UdpStart
    /\ BgStart
    /\ FanStart
    /\ CtxStart
    /\ TailStart

CoopNext ==
    \/ \E c \in Addrs : CoAccept(c)
    \/ \E c \in Addrs : CoClientSend(c)
    \/ \E c \in Addrs : CoReadReturns(c)
    \/ \E c \in Addrs : CoWake(c)

SpecCoop == CoopInit /\ [][CoopNext]_vars

\* A serial transport: P with anything at it, in a directory that exists,
\* is missing, or with no directory part; the transport is constructed,
\* serves, is closed, and others may remove the link or close a descriptor.
FsStates ==
    {f \in [at : {"nothing", "stale", "file"}, dir : {"nodir", "exists", "missing"}] :
        f.dir = "missing" => f.at = "nothing"}

SerialInit ==
    /\ CoreStart
    /\ CoopStart
    /\ fs \in FsStates
    /\ ser = [master |-> "unset", slave |-> "unset", fdm |-> "none", fds |-> "none",
              made |-> 0, ctor |-> "-", calls |-> 0, res |-> "-",
              loop |-> "none", handled |-> 0]
    /\ UdpStart
    /\ BgStart
    /\ FanStart
    /\ CtxStart
    /\ TailStart

SerialNext ==
    \/ SerialConstruct
    \/ ExtRemoveLink
    \/ ExtCloseMaster
    \/ ExtCloseSlave
    \/ SerialClose
    \/ SerialServe
    \/ SerialMessage
    \/ SerialHandlerRaise

SpecSerial == SerialInit /\ [][SerialNext]_vars

\* Datagrams: any payloads from any peers, answered or not, each reply
\* taken by the socket in any number of sendto calls.
UdpInit ==
    /\ CoreStart
    /\ CoopStart
    /\ SerStart
    /\ UdpStart
    /\ BgStart
    /\ FanStart
    /\ CtxStart
    /\ TailStart

UdpNext ==
    \/ \E data \in UdpPayloads, addr \in Peers, r \in ReplyValues :
          UdpDatagram(data, addr, r)
    \/ \E data \in UdpPayloads, addr \in Peers : UdpDatagramRaise(data, addr)
    \/ \E k \in 1..2 : UdpSendto(k)
    \/ UdpSendEnd
    \/ \E msg \in Replies : UdpBroadcast(msg)

SpecUdp == UdpInit /\ [][UdpNext]_vars

\* The server with devices that start background tasks.
TasksNext ==
    \/ ServerStart
    \/ \E t \in TransportSet(devTr) : TaskEnd(t, "done")
    \/ \E t \in TransportSet(devTr) : TaskEnd(t, "failed")
    \/ JoinAllReturns
    \/ Interrupt
    \/ StopCall(FALSE)
    \/ StopCall(TRUE)
    \/ StopReturnsBg
    \/ \E d \in 1..Len(devTr) : AcqOn(d)
    \/ \E d \in 1..Len(devTr) : AcqKill(d)
    \/ \E d \in 1..Len(devTr) : AcqBroadcast(d)

SpecTasks == LifeInit /\ [][TasksNext]_vars

\* A device with any transports, whose broadcast is called again and again.
FanInit ==
    /\ CoreStart
    /\ CoopStart
    /\ SerStart
    /\ UdpStart
    /\ BgStart
    /\ dbTr \in SeqsUpTo(TransportKinds, MaxTransports)
    /\ dbi = 1
    /\ dbCalls = [i \in 1..Len(dbTr) |-> 0]
    /\ dbn = 0
    /\ dbpc = "idle"
    /\ CtxStart
    /\ TailStart

FanNext ==
    \/ DevBroadcast
    \/ DevBroadcastStep(FALSE)
    \/ DevBroadcastStep(TRUE)
    \/ DevBroadcastEnd

SpecFanout == FanInit /\ [][FanNext]_vars

\* A server_context over a configuration with any transports.
CtxInit ==
    /\ CoreStart
    /\ CoopStart
    /\ SerStart
    /\ UdpStart
    /\ BgStart
    /\ FanStart
    /\ ctxTr \in SeqsUpTo(TransportKinds, MaxTransports)
    /\ ctxStarted = [i \in 1..Len(ctxTr) |-> FALSE]
    /\ ctxi = 1
    /\ ctxRun = "none"
    /\ ctxEvent = FALSE
    /\ ctxCaller = "init"
    /\ ctxn = 0
    /\ ctxTask = "none"
    /\ ctxStops = [i \in 1..Len(ctxTr) |-> 0]
    /\ ctxAsync = "idle"
    /\ ctxNoops = 0
    /\ TailStart

CtxNext ==
    \/ CtxStartCall
    \/ CtxCreate(FALSE)
    \/ CtxCreate(TRUE)
    \/ CtxTransportStart(FALSE)
    \/ CtxTransportStart(TRUE)
    \/ CtxSet
    \/ CtxStartReturns
    \/ CtxTaskRuns
    \/ CtxStopNoop
    \/ CtxStop
    \/ CtxWatcher
    \/ CtxTaskStop
    \/ CtxTaskDead
    \/ CtxRunEnds
    \/ CtxJoined

SpecContext == CtxInit /\ [][CtxNext]_vars

\* The threads and the hub go on running.
SpecContextFair == CtxInit /\ [][CtxNext]_vars /\ WF_vars(CtxNext)

\* The transports of a device, any entries.
BaudInit ==
    /\ CoreStart
    /\ PreStart
    /\ TailStart

BaudNext ==
    \E itype \in KnownTypes, ibaud \in EntryBauds, devbaud \in DeviceBauds :
        MakeTransport(itype, ibaud, devbaud)

SpecBaud == BaudInit /\ [][BaudNext]_vars

\* Device entries of a registered class, with any transport entries.
RejectInit ==
    /\ CoreStart
    /\ PreStart
    /\ TailStart

RejectNext ==
    \/ \E ts \in SeqsUpTo(TransportEntries, MaxTransports) : RjBegin(ts)
    \/ RjStep
    \/ RjEnd

SpecReject == RejectInit /\ [][RejectNext]_vars

\* A Mythen2 that is sent '-start' and '-stop' in any order.
MythenInit ==
    /\ CoreStart
    /\ PreStart
    /\ TailStart

MythenNext ==
    \/ \E i \in 1..MaxAcq : MtRun(i)
    \/ \E i \in 1..MaxAcq : MtEnd(i)
    \/ MtStartCmd
    \/ MtStopCmd

SpecMythen == MythenInit /\ [][MythenNext]_vars

\* A continuous-trigger acquisition of any number of frames, with triggers
\* at any moment.
TriggerInit ==
    /\ CoreStart
    /\ PreStart
    /\ TbStart
    /\ UbcStart
    /\ RjStart
    /\ MtStart
    /\ \E nb \in 0..MaxFrames : tg = NewAcq(nb)
    /\ RaStart
    /\ AxStart

TriggerNext ==
    \/ TgTrigger
    \/ TgAcquire
    \/ TgAcquired

SpecTrigger == TriggerInit /\ [][TriggerNext]_vars

\* An acquisition of any number of frames that may be stopped, and
\* readouts of any size at any moment.
ReadoutInit ==
    /\ CoreStart
    /\ PreStart
    /\ TbStart
    /\ UbcStart
    /\ RjStart
    /\ MtStart
    /\ TgStart
    /\ \E nb \in 0..MaxFrames : ra = NewRun(nb)
    /\ rd = NoReadout
    /\ AxStart

ReadoutNext ==
    \/ RaRun
    \/ RaFrame
    \/ RaEnd
    \/ RaKill
    \/ \E n \in 0..MaxFrames : RaReadout(n)
    \/ RaGet

SpecReadout == ReadoutInit /\ [][ReadoutNext]_vars

\* An axis that is sent preparemove, startmove and position queries, with
\* any destinations, at any moment.
AxisInit ==
    /\ CoreStart
    /\ PreStart
    /\ TbStart
    /\ UbcStart
    /\ RjStart
    /\ MtStart
    /\ TgStart
    /\ RaStart
    /\ \E p \in 0..MaxPos : ax = NewAxis(p)

AxisNext ==
    \/ \E d \in 0..MaxPos : AxPreparemove(d)
    \/ AxStartmove
    \/ AxTick
    \/ AxPosition

SpecAxis == AxisInit /\ [][AxisNext]_vars

\* --------------------------------------------------- claims on one channel
NonNone(ps) == SelectSeq(ps, LAMBDA p : p.r # None)

ReplyData(ps) == [i \in 1..Len(NonNone(ps)) |-> NonNone(ps)[i].r[1]]

EndsWith(s, sep) ==
    Len(s) >= Len(sep) /\ SubSeq(s, Len(s) - Len(sep) + 1, Len(s)) = sep

Chomp(s, sep) == IF EndsWith(s, sep) THEN SubSeq(s, 1, Len(s) - Len(sep)) ELSE s

\* C1: chunking-invariance of delimited framing. However the stream is cut
\* into reads, the messages read_messages emits are the non-empty segments
\* of the whole stream split on the terminator (the unterminated tail left
\* out), and no emitted message is empty.
C1_ChunkingInvariance ==
    /\ IsPrefix(handled \o lines, Ref(stream, nl))
    /\ closedBy = "eof" => handled = Ref(stream, nl)
    /\ \A i \in 1..Len(handled) : handled[i] # <<>>

\* C2: round trip. Every message handed to handle_message is, byte for
\* byte, the message the client sent, without the terminator.
C2_RoundTrip ==
    \A i \in 1..Len(handled) : i <= Len(sent) /\ handled[i] = sent[i]

\* C4: special messages. When the accumulation buffer equals a configured
\* special message, that message is emitted at once and the buffer is reset,
\* so the buffer is never left holding a special message.
C4_SpecialEmitted == nl = CR => buff \notin special_messages

\* C3: per-channel ordering. The handler is invoked once per message, in
\* the order the client sent them (each handed message is the sent message,
\* the fast path leaving its terminator on), all of them by the time the
\* handler ends at end of file; a reply that is not written yet belongs to
\* the message handled last, and replies are produced in message order.
C3_Ordering ==
    /\ IsPrefix([i \in 1..Len(handled) |-> Chomp(handled[i], nl)], sent)
    /\ closedBy = "eof" => Len(handled) = Len(sent)
    /\ \A i \in 1..Len(NonNone(prod)) :
          i > nwr => NonNone(prod)[i].m = Len(handled)
    /\ \A i, j \in 1..Len(prod) : i < j => prod[i].m <= prod[j].m

\* Two different messages were handled in turn and each was answered.
C3_Witness ==
    /\ Len(handled) = 2
    /\ handled[1] # handled[2]
    /\ nwr = 2
    /\ closedBy = "eof"

\* C5: incremental replies. With a generator handler, a reply is written
\* before the generator is resumed for the next one: at most one produced
\* reply is unwritten, it is the one produced last and the one being
\* written; a None is skipped and nothing is written for it.
C5_Incremental ==
    isgen =>
        /\ pc = "send" =>
              /\ Len(NonNone(prod)) = nwr + 1
              /\ Last(prod).r = Some(cur)
        /\ pc # "send" => Len(NonNone(prod)) = nwr

\* The generator's second reply to a message is being written, its first is
\* written, and an earlier None was skipped.
C5_Witness ==
    /\ isgen
    /\ pc = "send"
    /\ Len(CurReplies) = 2
    /\ CurReplies[1].r # None
    /\ nwr = 1
    /\ \E i \in 1..Len(prod) : prod[i].r = None

C11_RaiseCloses ==
    /\ [](closedBy = "error" =>
            /\ pc = "closed"
            /\ cur = <<>>
            /\ rx = Flatten(ReplyData(prod)))
    /\ [][closedBy = "error" =>
            /\ rx' = rx
            /\ nwr' = nwr
            /\ prod' = prod
            /\ handled' = handled
            /\ pc' = "closed"]_vars

\* A generator handler raised after the first reply to a message was
\* written, while a later message of the same read was waiting, and the
\* client then sent its end of file.
C11_Witness ==
    /\ isgen
    /\ closedBy = "error"
    /\ pc = "closed"
    /\ Len(handled) = 1
    /\ lines # <<>>
    /\ Len(NonNone(CurReplies)) = 1
    /\ nwr = 1
    /\ peerClosed

\* C12: partial trailing data is dropped. No message handed to the device
\* holds bytes that no terminator followed: on the fast path every handed
\* line ends with b"\n", and with a custom terminator the handed messages
\* are among the terminated segments of the stream.
C12_TailDropped ==
    IF nl = LF
    THEN \A i \in 1..Len(handled) : EndsWith(handled[i], LF)
    ELSE IsPrefix(handled \o lines, Ref(stream, nl))

\* ------------------------------------------------- claims on the servers
Ended(st) == st \in {"eof", "error", "killed"}

\* C7: the connections map holds exactly the connections whose handler is
\* running, and the entry of a connection whose handler has ended, however
\* it ended, was deleted exactly once.
C7_ConnectionsMap ==
    /\ Keys(connections) = {c \in Addrs : Running(sconn[c])}
    /\ \A c \in Addrs : ndel[c] = IF Ended(sconn[c]) THEN 1 ELSE 0

\* Three handlers ended, one at the end of file, one by an error and one
\* killed, and the map is empty.
C7_Witness ==
    /\ \E c, d, e \in Addrs :
          sconn[c] = "eof" /\ sconn[d] = "error" /\ sconn[e] = "killed"
    /\ Keys(connections) = {}

\* C8: broadcast delivery. When broadcast(msg) has ended, each socket that
\* was in the map when it was called, and is still open, was written: it got
\* msg, or its failed write was logged.
C8_Delivery ==
    bc.pc \in {"done", "raised"} => (bcSnap \ bcGone) \subseteq (bcGot \cup bcLogged)

\* C9: a broadcast that overlaps the accept or the disconnect of another
\* connection does not raise, and when it is done every connection that
\* stayed open all along was written.
C9_RaceFree ==
    /\ bc.pc # "raised"
    /\ bc.pc = "done" => (bcSnap \ bcGone) \subseteq (bcGot \cup bcLogged)

\* C10: error isolation. A step in which the handler of one connection ends
\* by an error leaves every other connection where it is and registered as
\* it was, and leaves the UDP server alone; a datagram whose handler raises
\* is logged and leaves every connection alone.
C10_Isolation ==
    [][/\ \A c \in Addrs :
             (Running(sconn[c]) /\ sconn'[c] = "error") =>
                 /\ \A d \in Addrs \ {c} :
                       /\ sconn'[d] = sconn[d]
                       /\ InMap(connections', d) <=> InMap(connections, d)
                 /\ udp' = udp
       /\ udp'.logged > udp.logged =>
             /\ sconn' = sconn
             /\ connections' = connections
             /\ udp'.n = udp.n + 1]_vars

\* After a connection failed, one that was open then had a message handled
\* and answered and is still registered, a new connection was accepted, and
\* a datagram was handled after the handler of an earlier one had raised.
C10_Witness ==
    /\ surv.who # Free
    /\ surv.did = "answered"
    /\ surv.acc
    /\ Running(sconn[surv.who])
    /\ InMap(connections, surv.who)
    /\ udp.logged >= 1
    /\ udp.last = "ok"

\* ------------------------------------------------ claims on the life cycle
\* C13: serve_forever. The transports' tasks are all started; stop() begins
\* only when all of them have ended or an interrupt came; and when the
\* program has left serve_forever, by return or by exception, stop() was
\* called exactly once on every transport.
C13_StopOnce ==
    /\ lpc # "init" => \A t \in TransportSet(devTr) : ltask[t] # "none"
    /\ (lpc = "stop" /\ ~lintr) => \A t \in TransportSet(devTr) : ltask[t] # "running"
    /\ lpc \in {"returned", "raised", "exit", "exit1"} =>
          \A t \in TransportSet(devTr) : lstop[t] = 1

\* C14: stopping a transport cancels its connections. Once stop() has
\* returned on the TCP transport, no handler task of a connection is
\* running, the connections map is empty, and no message is handled.
C14_StopCancels ==
    stopped =>
        /\ \A c \in Addrs : ~Running(sconn[c])
        /\ Keys(connections) = {}

\* ------------------------------------------- claims on the configuration
ValidTypes == {"tcp", "udp", "serial"}

\* An entry with a name that is free, a class of the registry whose
\* constructor accepts the options, and transports of known types.
ValidEntry(devs, e) ==
    /\ e.name \in Names
    /\ devs[e.name] = NoDevice
    /\ e.class = "K"
    /\ \A i \in 1..Len(e.transports) : e.transports[i] \in ValidTypes \cup {Absent}

\* C15: device construction failures are isolated. In every turn of the
\* loop over the entries: an entry whose creation raises is logged and
\* Server.devices stays as it was; a valid entry is created and registered
\* under its name, whatever happened to the entries before it; the devices
\* registered before stay registered; and the loop goes on to the next
\* entry.
C15_Isolated ==
    [][cfgOut' # cfgOut =>
          /\ Len(cfgOut') = Len(cfgOut) + 1
          /\ ~cfgLast'.ok => (devices' = devices /\ Last(cfgOut') = "logged")
          /\ ValidEntry(devices, cfgLast'.entry) =>
                /\ cfgLast'.ok
                /\ Last(cfgOut') = "created"
                /\ devices'[cfgLast'.entry.name] = cfgLast'.entry.class
          /\ \A k \in Registered(devices) : devices'[k] = devices[k]]_vars

\* An entry without a class was logged and the valid entry after it, with
\* two transports, is registered.
C15_Witness ==
    /\ cfgOut = <<"logged", "created">>
    /\ Registered(devices) = {cfgLast.entry.name}
    /\ Len(cfgLast.made) = 2

\* C16: a device entry with a malformed transport spec is skipped as a
\* whole. When a transport entry of the entry handled last has an unknown
\* type, the device is not created and no transport was made for that
\* transport entry.
C16_MalformedSkipped ==
    cfgOut # <<>> =>
        \A i \in 1..Len(cfgLast.entry.transports) :
            cfgLast.entry.transports[i] \notin ValidTypes \cup {Absent} =>
                /\ ~cfgLast.ok
                /\ Len(cfgLast.made) < i

\* C17: name is optional. An entry without a name, otherwise valid, is
\* created and registered under the name of its class.
C17_NameDefaults ==
    (/\ cfgOut # <<>>
     /\ cfgLast.entry.name = Absent
     /\ cfgLast.entry.class = "K"
     /\ \A i \in 1..Len(cfgLast.entry.transports) :
           cfgLast.entry.transports[i] \in ValidTypes \cup {Absent})
    => (cfgLast.ok /\ devices["K"] = "K")

\* ------------------------------------------------ claims on the servers, 2
\* C18: the on-connect hook. The handler of every accepted connection has
\* called device.on_connection exactly once.
C18_HookOnce ==
    \A c \in Addrs : sconn[c] # "none" => on_connection_calls(sconn[c]) = 1

\* ------------------------------------------------------ claims on the delay
Configured == dbaud # None /\ dbaud # Some(0)

\* C19: delay injection points. On a transport with a baudrate, whatever
\* its type, delay was called with the byte length of a message just before
\* the message was handed to the device, and with the byte length of a
\* reply just before the reply was written.
C19_DelayPoints ==
    Configured =>
        \A i \in 1..Len(dlog) :
            dlog[i].op \in {"handle", "write"} =>
                \E j \in 1..(i - 1) :
                    /\ dlog[j].op = "delay"
                    /\ dlog[j].n = dlog[i].n
                    /\ \A k \in (j + 1)..(i - 1) : dlog[k].op = "sleep"

\* C20: the Delay Model. A call delay(n, b) with b None or 0 is followed by
\* no sleep; with b > 0 it is followed by exactly one sleep, of 10 * n / b
\* seconds (between 1.04 s and 1.05 s for n = 1000, b = 9600); and the task
\* sleeps nowhere else.
C20_DelayModel ==
    \A i \in 1..Len(dlog) :
        /\ dlog[i].op = "delay" =>
              IF Configured
              THEN /\ i < Len(dlog)
                   /\ dlog[i + 1].op = "sleep"
                   /\ dlog[i + 1].t.num * dbaud[1] = 10 * dlog[i].n * dlog[i + 1].t.den
                   /\ (dlog[i].n = 1000 /\ dbaud = Some(9600)) =>
                         /\ 104 * dlog[i + 1].t.den <= 100 * dlog[i + 1].t.num
                         /\ 100 * dlog[i + 1].t.num < 105 * dlog[i + 1].t.den
                   /\ i + 1 < Len(dlog) => dlog[i + 2].op # "sleep"
              ELSE i < Len(dlog) => dlog[i + 1].op # "sleep"
        /\ dlog[i].op = "sleep" => (i > 1 /\ dlog[i - 1].op = "delay")

\* A serial line at 9600 baud read a message of 1000 bytes and wrote a
\* reply of 1000 bytes: delay was called and the task slept, both times.
C20_Witness ==
    /\ dkind = "serial"
    /\ dbaud = Some(9600)
    /\ Len(dlog) = 6
    /\ dlog[1] = Event("delay", 1000, Frac(0, 1))
    /\ dlog[2].op = "sleep"
    /\ dlog[4] = Event("delay", 1000, Frac(0, 1))
    /\ dlog[5].op = "sleep"
    /\ dlog[6].op = "write"

\* ------------------------------------------------ claims on one channel, 2
\* C29: raw-chunk framing. A read that returns bytes yields exactly one
\* message, equal to those bytes; nothing is kept in a buffer, and the
\* messages one after the other are the bytes read so far, unchanged; the
\* empty read at end of file ends the loop and yields nothing.
C29_RawChunks ==
    /\ [](/\ buff = <<>>
          /\ Flatten(handled \o lines) \o avail \o wire = stream
          /\ \A i \in 1..Len(handled) : handled[i] # <<>>)
    /\ [][/\ (pc = "read" /\ pc' = "yield") =>
                 (lines' = <<avail>> /\ avail' = <<>>)
          /\ (pc = "read" /\ closedBy' = "eof") =>
                 (lines' = lines /\ handled' = handled /\ avail = <<>>)]_vars

\* Two reads gave two messages, the first with a line feed inside it, and
\* the loop ended at the end of file.
C29_Witness ==
    /\ Len(handled) = 2
    /\ \E i \in 1..(Len(handled[1]) - 1) : handled[1][i] = "LF"
    /\ closedBy = "eof"

\* ---------------------------------------------------- claims on scheduling
\* C21: cooperative suspension. A task suspended in a read or in a delay
\* sleep does not hold the thread; so the accept loop can take the next
\* connection, every other task whose message has arrived can read it, and
\* every other task whose sleep is over can go on.
C21_Cooperative ==
    \A c \in Addrs :
        tk[c] \in {"read", "sleep"} =>
            /\ cpu # c
            /\ \A d \in Addrs \ {c} :
                  /\ (tk[d] = "none" /\ \A e \in Addrs : e < d => tk[e] # "none")
                        => ENABLED CoAccept(d)
                  /\ (tk[d] = "read" /\ cin[d] = 1) => ENABLED CoReadReturns(d)
                  /\ tk[d] = "sleep" => ENABLED CoWake(d)

\* The first client has sent nothing and its task waits in the read, the
\* task of the second sleeps in a delay, and the third, accepted after
\* them, has had all its messages handled.
C21_Witness ==
    /\ tk[1] = "read" /\ cin[1] = 0 /\ cdone[1] = 0
    /\ tk[2] = "sleep"
    /\ \E c \in Addrs \ {1, 2} : tk[c] = "read" /\ cdone[c] = MaxMsgs

\* ------------------------------------------- claims on the serial transport
\* C22: stop is idempotent. A close() on a transport that an earlier close()
\* has stopped does not raise and changes neither the file system, nor the
\* descriptors, nor the attributes.
C22_StopIdempotent ==
    [][(ser.calls >= 1 /\ ser.res = "ok" /\ ser'.calls = ser.calls + 1) =>
          /\ ser'.res = "ok"
          /\ fs' = fs
          /\ ser'.fdm = ser.fdm /\ ser'.fds = ser.fds
          /\ ser'.master = ser.master /\ ser'.slave = ser.slave]_vars

\* close() was called twice on a transport that had served, and returned
\* both times; the link is gone and both descriptors are closed.
C22_Witness ==
    /\ ser.calls = 2
    /\ ser.res = "ok"
    /\ ser.loop # "none"
    /\ fs.at = "nothing"
    /\ ser.fdm = "closed" /\ ser.fds = "closed"
    /\ ser.master = "None" /\ ser.slave = "None"

\* C23: serial teardown. After close() the link is gone and both
\* descriptors are closed, and close() did not raise, also when the link was
\* removed or a descriptor closed by someone else before.
C23_Teardown ==
    ser.calls >= 1 =>
        /\ ser.res = "ok"
        /\ fs.at # "link"
        /\ ser.fdm = "closed"
        /\ ser.fds = "closed"

\* C24: the link creation is idempotent. The constructor does not raise,
\* whatever was at P and whether or not P has a directory part; after it P
\* is the link to the tty of the slave and its directory exists.
C24_LinkCreated ==
    /\ ser.ctor # "raised"
    /\ (ser.made >= 1 /\ ser.calls = 0) => (fs.at \in {"link", "nothing"} /\ fs.dir = "exists")

\* C25: the serial session. From the start of serve_forever until the
\* transport is stopped, the protocol loop is running.
C25_SessionLasts ==
    (ser.loop # "none" /\ ser.calls = 0) => ser.loop = "running"

\* ------------------------------------------------------ claims on datagrams
\* The bytes sent to peer p, and the replies meant for p, one after the other.
SentTo(p) == Flatten([i \in 1..Len(SelectSeq(uout, LAMBDA o : o.to = p)) |->
                         SelectSeq(uout, LAMBDA o : o.to = p)[i].data])

RepliesTo(p) == Flatten([i \in 1..Len(SelectSeq(ureplies, LAMBDA o : o.to = p)) |->
                            SelectSeq(ureplies, LAMBDA o : o.to = p)[i].data])

\* C26: UDP dispatch. The handler was invoked once per datagram, with the
\* payload of the datagram as it came and the address it came from; and
\* when no send is under way, each peer was sent exactly the bytes of the
\* replies to its own datagrams, all of them.
C26_UdpDispatch ==
    /\ uhandled = urecv
    /\ upc = "idle" => \A p \in Peers : SentTo(p) = RepliesTo(p)
    /\ \A i \in 1..Len(ureplies) : \E j \in 1..Len(urecv) : urecv[j].peer = ureplies[i].to

\* Two datagrams from two peers, the first holding a line feed; the two-byte
\* reply to the second left in two sendto calls.
C26_Witness ==
    /\ upc = "idle"
    /\ Len(urecv) = 2
    /\ urecv[1].peer # urecv[2].peer
    /\ urecv[1].data = <<"S", "LF">>
    /\ Len(ureplies) = 2
    /\ Len(uout) = 3

\* ----------------------------------------------- claims on background tasks
\* C27: background tasks do not outlive shutdown. After Server.stop has
\* returned, no background task of a device is still running, and none has
\* broadcast since.
C27_NoTaskLeft ==
    lpc \in {"returned", "exit"} => (~acqLate /\ \A d \in 1..Len(devTr) : acq[d] # "running")

\* --------------------------------------------- claims on Device.broadcast
\* C28: when a call of Device.broadcast(msg) is over, by return or by an
\* exception, broadcast(msg) of every transport of the device was invoked
\* exactly once in that call.
C28_AllTransports ==
    dbpc \in {"done", "raised"} => \A i \in 1..Len(dbTr) : dbCalls[i] = 1

\* ------------------------------------------------ claims on server_context
\* C30: once server_context.start() has returned, start() was called, and
\* has returned, on every transport of every device of the server.
C30_StartedBeforeReturn ==
    ctxCaller = "entered" => \A i \in 1..Len(ctxTr) : ctxStarted[i]

\* The second start() of a context over two transports has returned.
C30_Witness ==
    /\ ctxCaller = "entered"
    /\ Len(ctxTr) = 2
    /\ ctxn = 2

\* -------------------------------------------- claims on transport entries
\* C31: every transport made has the baudrate of its entry when the entry
\* gives one, and the baudrate of the device otherwise; a transport made
\* from an entry without a type is a TCPServer.
C31_BaudDefault ==
    \A i \in 1..Len(tb) :
        /\ tb[i].entry # Absent => tb[i].baudrate = tb[i].entry
        /\ tb[i].entry = Absent => tb[i].baudrate = tb[i].device
        /\ tb[i].type = Absent => tb[i].iklass = "TCPServer"

\* A typeless entry with its own baudrate, under a device with another
\* baudrate, and a serial entry that takes the baudrate of the device.
C31_Witness ==
    /\ Len(tb) = 2
    /\ tb[1].type = Absent /\ tb[1].entry = "9600" /\ tb[1].device = "1200"
    /\ tb[2].type = "serial" /\ tb[2].entry = Absent /\ tb[2].device = "1200"
    /\ tb[2].baudrate = "1200"

\* ------------------------------------------------ claims on UDP broadcast
\* C32: UDP broadcast is a no-op. A call of UDPServer.broadcast adds no
\* sendto call and changes nothing of the state of the transport, whatever
\* datagrams were received before.
C32_BroadcastNoOp ==
    [][ubc' # ubc => UNCHANGED <<uout, urecv, uhandled, ureplies, ucur, upc>>]_vars

\* broadcast was called twice after datagrams of two peers, one of them
\* answered.
C32_Witness ==
    /\ ubc = 2
    /\ Cardinality(PeersSeen(urecv)) = 2
    /\ uout # <<>>

\* C33: server_context.start() always returns. A caller that waits for
\* started_event gets out of start().
C33_StartReturns == (ctxCaller = "waiting") ~> (ctxCaller = "entered")

C35_Released == rj.pc = "rejected" => rj.held = 0

\* --------------------------------------------------- claims on device names
\* The entries that were created, among the outcomes of the loop.
Created(out) == SelectSeq(out, LAMBDA o : o = "created")

\* C36: device names are unique. Every device that was created is
\* registered under a name of its own; and an entry whose name is already
\* registered is rejected: Server.devices stays as it was and no device
\* or transport is made for the entry.
C36_UniqueNames ==
    /\ [](Len(Created(cfgOut)) = Cardinality(Registered(devices)))
    /\ [][(cfgOut' # cfgOut /\ cfgLast'.entry.name \in Registered(devices)) =>
            /\ ~cfgLast'.ok
            /\ Last(cfgOut') = "logged"
            /\ cfgLast'.made = <<>>
            /\ devices' = devices]_vars

\* A device was created, and an entry of a good class with two transports
\* and the same name was rejected after it.
C36_Witness ==
    /\ cfgOut = <<"created", "logged">>
    /\ cfgLast.entry.name \in Registered(devices)
    /\ cfgLast.entry.class = "K"
    /\ Len(cfgLast.entry.transports) = 2
    /\ \A i \in 1..2 : cfgLast.entry.transports[i] \in ValidTypes

\* ------------------------------------------------------ claims on Mythen2
\* The tasks that run.
RunningTasks == {i \in 1..Len(mt.tasks) : mt.tasks[i] = "running"}

\* C37: at most one acquisition task of a device runs at any time, and
\* after '-stop' none does.
C37_OneTask ==
    /\ Cardinality(RunningTasks) <= 1
    /\ mt.last = "stop" => RunningTasks = {}

\* The frames begun: those in the buffer and the one being acquired.
FramesBegun == Len(tg.buf) + (IF tg.pc = "acquiring" THEN 1 ELSE 0)

\* C38: continuous trigger. The frames begun are never more than the
\* triggers accepted, and the frames in the buffer are numbered 0, 1, 2,
\* ... without gaps; a frame begins only on a trigger that was accepted
\* while no frame was being acquired; and a trigger that comes while a
\* frame is being acquired is missed and changes nothing else.
C38_Triggers ==
    /\ [](/\ FramesBegun <= tg.accepted
          /\ tg.buf = [i \in 1..Len(tg.buf) |-> i - 1]
          /\ Len(tg.buf) <= tg.nb)
    /\ [][(tg.pc # "acquiring" /\ tg'.pc = "acquiring") => tg.trig = "set"]_vars
    /\ [][(tg.pc = "acquiring" /\ tg'.accepted + tg'.missed # tg.accepted + tg.missed) =>
            tg' = [tg EXCEPT !.missed = @ + 1]]_vars
    /\ [][tg'.accepted # tg.accepted => tg.pc # "acquiring"]_vars

\* Three frames were acquired on three triggers, and two triggers that
\* came during a frame were missed.
C38_Witness ==
    /\ tg.pc = "done"
    /\ tg.buf = <<0, 1, 2>>
    /\ tg.accepted = 3
    /\ tg.missed = 2

\* C39: acquisition and readout. finished is False while run runs and True
\* once it has ended, normally or killed; after a normal end the frames
\* put are 0 .. nb_frames-1 in order; the frames of the replies are the
\* frames put, in order, each once; a readout that is over has replied n
\* frames; and a readout that is not over still gets its frames: the
\* buffer holds one, or the acquisition can still put one.
C39_RunAndReadout ==
    /\ ra.st = "running" => ra.finished = "False"
    /\ ra.st \in {"done", "killed"} => ra.finished = "True"
    /\ ra.st = "done" => ra.put = [i \in 1..ra.nb |-> i - 1]
    /\ IsPrefix(rd.all, ra.put)
    /\ rd.pc = "done" => Len(rd.got) = rd.n
    /\ rd.pc = "reading" =>
          \/ ra.buf # <<>>
          \/ ra.st \in {"spawned", "running"} /\ ra.frame < ra.nb

\* -------------------------------------------------------- claims on IcePAP
\* C40: a preparemove that is rejected because the axis is moving leaves
\* the destination, the trajectory and the ready and moving bits as they
\* were, and the motion ends at the destination it was started with (every
\* preparemove but the first one was rejected, and a query ends the motion).
C40_RejectedChangesNothing ==
    /\ [][ax'.rej # ax.rej =>
            /\ ax'.dest = ax.dest
            /\ ax'.x0 = ax.x0 /\ ax'.sign = ax.sign /\ ax'.t3 = ax.t3
            /\ ax'.ready = ax.ready]_vars
    /\ [][(~ax.ready /\ ax'.ready /\ ax'.np = ax.np /\ ax.np = ax.rej + 1)
            => ax'.pos = ax.dest0]_vars
====
